---- MODULE Spec2Model ----
(***************************************************************************)
(* xbowbench-manager: fleet catalog (lib/docker.ts listBenchmarks,         *)
(* getBenchmarkInfo), lifecycle controller (buildBenchmark, startBenchmark,*)
(* stopBenchmark, restartBenchmark) and compatibility patcher              *)
(* (lib/fixer.ts analyzeBenchmark, fixBenchmark).                          *)
(*                                                                         *)
(* Text is modelled as a sequence of tokens (strings): every pattern the   *)
(* code searches for or replaces is a sequence of whole tokens, so         *)
(* String.includes, split/join and the regular-expression replacements are *)
(* computed on tokens the way the code computes them on characters.        *)
(***************************************************************************)
EXTENDS Integers, Sequences, FiniteSets, TLC

VARIABLES
    \* ---- container daemon and benchmarks directory
    dockerUp,        \* the daemon socket answers
    containerState,  \* container id -> "absent" | "running" | "exited"
    daemonEvents,    \* number of daemon state changes so far
    fsReadable,      \* mkdir/readdir of the benchmarks path succeed
    manifest,        \* directory name -> its benchmark.yaml
    dirNames,        \* names of the sub-directories the benchmarks path holds
    dirEvents,       \* number of directories created or deleted so far
    dirAtCall,       \* caller -> the sub-directories present when it scanned
    \* ---- listBenchmarks / getBenchmarkInfo calls in progress
    listPc,          \* caller -> position in listBenchmarks
    listDirs,        \* caller -> benchmarkDirs (sequence of names)
    containers,      \* caller -> the `containers` array of the call
    images,          \* caller -> the `images` array of the call
    listPollOk,      \* caller -> the listContainers promise fulfilled (no catch)
    listInfos,       \* caller -> index -> BenchmarkInfo or NoInfo
    listResult,      \* caller -> returned array
    ctrCalls,        \* caller -> number of docker.listContainers calls issued
    imgCalls,        \* caller -> number of docker.listImages calls issued
    \* ---- lifecycle requests (POST /api/benchmarks/[id])
    reqPc,           \* request -> "idle" | "spawned"
    reqOp,           \* request -> action of the request body
    reqUnit,         \* request -> benchmarkId
    reqPort,         \* request -> `port` of the request body, 0 when it has none
    childEnv,        \* request -> environment its subprocess was spawned with
    processEnv,      \* process.env of the server
    spawned,         \* request -> number of subprocesses spawned for it
    procAlive,       \* request -> number of its subprocesses not yet closed
    requery,         \* request -> start's close handler awaits getBenchmarkInfo
    arrived,         \* request -> chunks its subprocess wrote, in arrival order
    error,           \* request -> the handler's `error` string (lines appended)
    sink,            \* request -> what onLog received, in order
    settled,         \* request -> the returned promise is settled
    result,          \* request -> the value the promise settled with
    resolvedBy,      \* request -> the event whose resolve settled the promise
    delivered,       \* request -> number of results its caller received
    errorEvents,     \* number of 'error' events emitted so far
    \* ---- one unit directory under the patcher
    files,           \* path -> [exists, content] of the unit directory
    analysis,        \* the last analyzeBenchmark call: what it saw, left and returned
    fixRuns,         \* the fixBenchmark calls so far: what each saw, left and returned
    \* ---- daemon gateway: deleteBenchmarkImages
    imgStore,        \* ids of the images the daemon holds
    delPc,           \* position of the deleteBenchmarkImages call
    delUnit,         \* its benchmarkId
    delImages,       \* its `images` array
    delIdx,          \* index of the loop over images
    deleted,         \* its `deleted` array
    delAttempts,     \* the dockerImage.remove calls it made: [id, ok], in order
    delResult,       \* the value it returned
    \* ---- daemon gateway: getContainerLogs, execInContainer, getDockerInfo
    gwCall,          \* the call in progress: operation, position, output, outcome
    \* ---- HTTP requests: middleware and API route handlers
    httpPc,          \* "idle" | "middleware" | "handler" | "done"
    httpReq,         \* the request: path, method, auth-token cookie, body
    httpResp,        \* the response: status, who answered, redirect target
    opRun,           \* the core operation the handler invoked, "none" if none
    \* ---- catalog sync (pullBenchmarks)
    syncPc,          \* "idle" | "access" | "pull" | "mkdir" | "clone" | "done"
    syncRepo,        \* the repository directory: "absent" | "files" | "git"
    syncRun,         \* the call in progress: what it found, ran and returns
    syncRuns         \* the calls that returned, oldest first

dirVars == <<dirNames, dirEvents, dirAtCall>>

catVars == <<dockerUp, containerState, daemonEvents, fsReadable, manifest, dirVars, listPc, listDirs,
             containers, images, listPollOk, listInfos, listResult, ctrCalls, imgCalls>>

lifeVars == <<reqPc, reqOp, reqUnit, reqPort, childEnv, processEnv, spawned, procAlive, requery, arrived, error, sink,
              settled, result, resolvedBy, delivered, errorEvents>>

fixVars == <<files, analysis, fixRuns>>

gwVars == <<imgStore, delPc, delUnit, delImages, delIdx, deleted, delAttempts, delResult,
            gwCall>>

syncVars == <<syncPc, syncRepo, syncRun, syncRuns>>

apiVars == <<httpPc, httpReq, httpResp, opRun, syncVars>>

vars == <<catVars, lifeVars, fixVars, gwVars, apiVars>>

-----------------------------------------------------------------------------
\* Bounds of the model
MaxDaemonEvents == 1
MaxDirEvents == 1     \* directories created or deleted under the benchmarks path
MaxChunks == 2        \* output chunks over all subprocesses
MaxErrorEvents == 2   \* 'error' events over all subprocesses
MaxLines == 2         \* lines of the unit's top Dockerfile
MaxFixRuns == 2       \* fixBenchmark calls on the unit

-----------------------------------------------------------------------------
\* Token text

\* String.prototype.includes on token sequences: pat occurs contiguously in s
Includes(s, pat) ==
    \E i \in 1..(Len(s) - Len(pat) + 1) :
        \A k \in 1..Len(pat) : s[i + k - 1] = pat[k]

\* String.prototype.toLowerCase, token by token (the other tokens are lower case)
ToLowerCase(name) ==
    CASE name = "XBEN-001-24" -> "xben-001-24"
      [] name = "XBEN-002-24" -> "xben-002-24"
      [] name = "XBEN-001-25" -> "xben-001-25"
      [] name = "XBEN-draft" -> "xben-draft"
      [] name = "FROM" -> "from"
      [] name = "RUN" -> "run"
      [] name = "COPY" -> "copy"
      [] name = "Apt-get update" -> "apt-get update"
      [] OTHER -> name

\* e.name.startsWith('XBEN-')
StartsWithXBEN(name) ==
    name \in {"XBEN-001-24", "XBEN-002-24", "XBEN-001-25", "XBEN-draft", "XBEN-README"}

\* parseInt(id.match(/XBEN-(\d+)/)?.[1] || '0')
NumId(name) ==
    CASE name = "XBEN-001-24" -> 1
      [] name = "XBEN-001-25" -> 1
      [] name = "XBEN-002-24" -> 2
      [] OTHER -> 0

-----------------------------------------------------------------------------
\* The benchmarks directory and the daemon

\* The entries the benchmarks path may hold, in scan order
DirEntries ==
    << [name |-> "XBEN-002-24", isDirectory |-> TRUE],
       [name |-> "notes",       isDirectory |-> TRUE],
       [name |-> "XBEN-001-24", isDirectory |-> TRUE],
       [name |-> "XBEN-README", isDirectory |-> FALSE],
       [name |-> "XBEN-001-25", isDirectory |-> TRUE],
       [name |-> "XBEN-draft",  isDirectory |-> TRUE] >>

DirectoryNames == {"XBEN-002-24", "notes", "XBEN-001-24", "XBEN-001-25", "XBEN-draft"}

\* fs.readdir(benchmarksPath, { withFileTypes: true }): the plain file and the
\* sub-directories that exist
ReadDir(names) ==
    LET Exists(e) == ~e.isDirectory \/ e.name \in names
    IN SelectSeq(DirEntries, Exists)

\* The containers the daemon may hold, in the order docker.listContainers returns them
ContainerIds == <<"c1", "c2", "c3", "c4">>

ContainerTable ==
    [c \in {"c1", "c2", "c3", "c4"} |->
        CASE c = "c1" -> [Id |-> "c1", Names |-> << <<"/", "xben-001-24", "-web-1">> >>,
                          Label |-> "xben-001-24",
                          Ports |-> << [PrivatePort |-> 80, PublicPort |-> 8080] >>]
          [] c = "c2" -> [Id |-> "c2", Names |-> << <<"/", "xben-001-24", "-db-1">> >>,
                          Label |-> "xben-001-24",
                          Ports |-> << [PrivatePort |-> 80, PublicPort |-> 8081],
                                       [PrivatePort |-> 3306, PublicPort |-> 0] >>]
          [] c = "c3" -> [Id |-> "c3", Names |-> << <<"/", "xben-002-24", "_app">> >>,
                          Label |-> "",
                          Ports |-> << [PrivatePort |-> 80, PublicPort |-> 0] >>]
          [] OTHER    -> [Id |-> "c4", Names |-> << <<"/", "xben-002-24", "-to-",
                                                      "xben-001-24">> >>,
                          Label |-> "xben-002-24",
                          Ports |-> << [PrivatePort |-> 80, PublicPort |-> 8082] >>]]

ContainerStates == {"absent", "running", "exited"}

\* docker.listImages()
DockerImages ==
    << [Id |-> "sha256:a1", RepoTags |-> << <<"xben-001-24", "-web:latest">> >>],
       [Id |-> "sha256:b2", RepoTags |-> << <<"other:latest">> >>],
       [Id |-> "sha256:c3", RepoTags |-> << <<"mirror/", "xben-001-24", "-db:latest">>,
                                            <<"xben-001-24", "-db:v1">> >>],
       [Id |-> "sha256:d4", RepoTags |-> <<>>] >>

RECURSIVE SelectIds(_, _)
SelectIds(ids, st) ==
    IF ids = <<>> THEN <<>>
    ELSE LET rest == SelectIds(Tail(ids), st)
         IN IF st[Head(ids)] = "absent" THEN rest
            ELSE <<[Id     |-> ContainerTable[Head(ids)].Id,
                    Names  |-> ContainerTable[Head(ids)].Names,
                    Label  |-> ContainerTable[Head(ids)].Label,
                    Ports  |-> ContainerTable[Head(ids)].Ports,
                    State  |-> st[Head(ids)]]>> \o rest

\* What docker.listContainers({ all: true }) answers when the daemon is reachable
DaemonContainers == SelectIds(ContainerIds, containerState)

-----------------------------------------------------------------------------
\* getBenchmarkInfoFast

\* c.Labels?.['com.docker.compose.project'] === name.toLowerCase() ||
\* c.Names.some(n => n.includes(name.toLowerCase()))
MatchesBenchmark(c, name) ==
    \/ c.Label = ToLowerCase(name)
    \/ \E i \in 1..Len(c.Names) : Includes(c.Names[i], <<ToLowerCase(name)>>)

\* A status derivation that forgets 'partial'
OverallStatusNoPartial(cs) ==
    IF Len(cs) = 0 THEN "stopped"
    ELSE IF \E i \in 1..Len(cs) : cs[i].state = "running" THEN "running"
    ELSE "stopped"

\* Determine overall status
OverallStatus(cs) ==
    IF Len(cs) = 0 THEN "stopped"
    ELSE IF \A i \in 1..Len(cs) : cs[i].state = "running" THEN "running"
    ELSE IF \E i \in 1..Len(cs) : cs[i].state = "running" THEN "partial"
    ELSE "stopped"

ToContainerInfo(c) ==
    [id |-> c.Id, state |-> c.State,
     portMappings |-> [i \in 1..Len(c.Ports) |->
                         [private |-> c.Ports[i].PrivatePort, public |-> c.Ports[i].PublicPort]]]

\* String(p.public), and p.private as a key of info.ports
PortString(n) ==
    CASE n = 80 -> "80"
      [] n = 3306 -> "3306"
      [] n = 8080 -> "8080"
      [] n = 8081 -> "8081"
      [] n = 8082 -> "8082"
      [] OTHER -> "0"

PortKeys == {"80", "3306"}

\* info.ports = {}: no key holds a list yet
NoPorts == [k \in PortKeys |-> <<>>]

\* A push that replaces the list of the key
PushPortOverwrite(ports, p) ==
    IF p.public # 0
    THEN [ports EXCEPT ![PortString(p.private)] = <<PortString(p.public)>>]
    ELSE ports

\* if (p.public) { if (!info.ports[p.private]) info.ports[p.private] = []
\*                  info.ports[p.private].push(String(p.public)) }
PushPort(ports, p) ==
    IF p.public # 0
    THEN [ports EXCEPT ![PortString(p.private)] = Append(@, PortString(p.public))]
    ELSE ports

\* c.portMappings.forEach(p => ...)
RECURSIVE PushPorts(_, _)
PushPorts(ports, portMappings) ==
    IF portMappings = <<>> THEN ports
    ELSE PushPorts(PushPort(ports, Head(portMappings)), Tail(portMappings))

\* info.containers.forEach(c => c.portMappings.forEach(...))
RECURSIVE ExtractPorts(_, _)
ExtractPorts(ports, cs) ==
    IF cs = <<>> THEN ports
    ELSE ExtractPorts(PushPorts(ports, Head(cs).portMappings), Tail(cs))

\* benchmark.yaml files: absent, unreadable, well formed, and three that are not
\* valid manifests (no YAML at all; cut off inside the level; a name without value)
ManifestFile(kind) ==
    CASE kind = "missing"    -> [errno |-> "ENOENT", lines |-> <<>>]
      [] kind = "unreadable" -> [errno |-> "EACCES", lines |-> <<>>]
      [] kind = "garbage"    -> [errno |-> "", lines |->
                                   << [key |-> "", value |-> "{{ not yaml"] >>]
      [] kind = "truncated"  -> [errno |-> "", lines |->
                                   << [key |-> "name", value |-> "Login Bypass"],
                                      [key |-> "level", value |-> "[2"] >>]
      [] kind = "noname"     -> [errno |-> "", lines |->
                                   << [key |-> "name", value |-> ""],
                                      [key |-> "level", value |-> "2"] >>]
      [] OTHER               -> [errno |-> "", lines |->
                                   << [key |-> "name", value |-> "Login Bypass"],
                                      [key |-> "level", value |-> "2"] >>]

ManifestKinds == {"missing", "unreadable", "garbage", "truncated", "noname", "good"}

\* The text of a line from its first non-blank character, as tokens
LineText(line) ==
    IF line.key = "" THEN <<line.value>>
    ELSE IF line.value = "" THEN <<line.key, ":">>
    ELSE <<line.key, ":", line.value>>

\* content.match(/^name:\s*(.+)$/m)?.[1].trim(): the first line that starts with
\* 'name:' and has text after it; \s* also runs over line ends, so a 'name:' with
\* nothing after it captures the next line. <<>> when nothing matches.
RECURSIVE NameMatch(_)
NameMatch(lines) ==
    IF lines = <<>> THEN <<>>
    ELSE IF Head(lines).key = "name" /\ Head(lines).value # ""
         THEN <<Head(lines).value>>
    ELSE IF Head(lines).key = "name" /\ Len(lines) > 1
         THEN LineText(lines[2])
    ELSE NameMatch(Tail(lines))

\* The digits a text starts with: parseInt(levelMatch[1]); -1 when it starts with none
LeadingDigits(value) ==
    CASE value = "2" -> 2
      [] value = "1" -> 1
      [] OTHER -> -1

\* info.level stays undefined
NoLevel == -1

\* content.match(/^level:\s*(\d+)/m): the first line that starts with 'level:'
\* and has digits after it, on the line or at the start of the next
RECURSIVE LevelMatch(_)
LevelMatch(lines) ==
    IF lines = <<>> THEN NoLevel
    ELSE IF Head(lines).key = "level" /\ LeadingDigits(Head(lines).value) # -1
         THEN LeadingDigits(Head(lines).value)
    ELSE IF /\ Head(lines).key = "level" /\ Head(lines).value = "" /\ Len(lines) > 1
            /\ lines[2].key = "" /\ LeadingDigits(lines[2].value) # -1
         THEN LeadingDigits(lines[2].value)
    ELSE LevelMatch(Tail(lines))

\* try { content = await fs.readFile(yamlPath); if (nameMatch) info.name = ...;
\* if (levelMatch) info.level = ... } catch { }: info keeps name = the directory
\* name and no level when the read fails or nothing matches
ManifestFields(file, name) ==
    IF file.errno # ""
    THEN [rejected |-> FALSE, name |-> <<name>>, level |-> NoLevel]
    ELSE [rejected |-> FALSE,
          name |-> IF NameMatch(file.lines) # <<>> THEN NameMatch(file.lines) ELSE <<name>>,
          level |-> LevelMatch(file.lines)]

getBenchmarkInfoFast(name, allContainers, allImages) ==
    LET Mine(c) == MatchesBenchmark(c, name)
        meta == ManifestFields(manifest[name], name)
        benchmarkContainers == SelectSeq(allContainers, Mine)
        infoContainers == [i \in 1..Len(benchmarkContainers) |->
                              ToContainerInfo(benchmarkContainers[i])]
    IN [id         |-> name,
        name       |-> meta.name,
        level      |-> meta.level,
        rejected   |-> meta.rejected,
        containers |-> infoContainers,
        status     |-> OverallStatus(infoContainers),
        ports      |-> ExtractPorts(NoPorts, infoContainers),
        from       |-> allContainers,
        hasImage   |-> \E i \in 1..Len(allImages) :
                          \E t \in 1..Len(allImages[i].RepoTags) :
                             Includes(allImages[i].RepoTags[t], <<ToLowerCase(name)>>)]

-----------------------------------------------------------------------------
\* listBenchmarks and getBenchmarkInfo

ListCallers == {"l1", "l2"}
GetCallers == {"g1"}
Callers == ListCallers \cup GetCallers
UnitNames == {"XBEN-001-24", "XBEN-002-24"}

NoInfo == [id |-> "", name |-> <<>>, level |-> NoLevel, rejected |-> FALSE,
           containers |-> <<>>, status |-> "none", ports |-> NoPorts,
           from |-> <<>>, hasImage |-> FALSE]

\* A filter that keeps every sub-directory, whatever its name
RECURSIVE BenchmarkDirsAnyName(_)
BenchmarkDirsAnyName(entries) ==
    IF entries = <<>> THEN <<>>
    ELSE IF Head(entries).isDirectory
         THEN <<Head(entries).name>> \o BenchmarkDirsAnyName(Tail(entries))
         ELSE BenchmarkDirsAnyName(Tail(entries))

\* entries.filter(e => e.isDirectory() && e.name.startsWith('XBEN-')), names kept
RECURSIVE BenchmarkDirs(_)
BenchmarkDirs(entries) ==
    IF entries = <<>> THEN <<>>
    ELSE IF Head(entries).isDirectory /\ StartsWithXBEN(Head(entries).name)
         THEN <<Head(entries).name>> \o BenchmarkDirs(Tail(entries))
         ELSE BenchmarkDirs(Tail(entries))

\* An insertion that puts a unit before the units of equal number
RECURSIVE InsertBeforeEqual(_, _)
InsertBeforeEqual(sorted, x) ==
    IF sorted = <<>> THEN <<x>>
    ELSE IF NumId(x.id) - NumId(Head(sorted).id) <= 0
         THEN <<x>> \o sorted
         ELSE <<Head(sorted)>> \o InsertBeforeEqual(Tail(sorted), x)

\* benchmarks.sort((a, b) => numA - numB): stable, ascending
RECURSIVE InsertSorted(_, _)
InsertSorted(sorted, x) ==
    IF sorted = <<>> THEN <<x>>
    ELSE IF NumId(x.id) - NumId(Head(sorted).id) < 0
         THEN <<x>> \o sorted
         ELSE <<Head(sorted)>> \o InsertSorted(Tail(sorted), x)

RECURSIVE SortBenchmarks(_)
SortBenchmarks(s) ==
    IF s = <<>> THEN <<>>
    ELSE InsertSorted(SortBenchmarks(SubSeq(s, 1, Len(s) - 1)), s[Len(s)])

\* listBenchmarks up to the two daemon requests: mkdir, readdir, filter, then
\* docker.listContainers and docker.listImages are both issued
ListStart(l) ==
    /\ listPc[l] = "idle"
    /\ l = "l2" => listPc["l1"] # "idle"     \* the callers are interchangeable
    /\ \A g \in GetCallers : listPc[g] \in {"idle", "done"}
    /\ dirAtCall' = [dirAtCall EXCEPT ![l] = dirNames]
    /\ \/ /\ fsReadable
          /\ listDirs' = [listDirs EXCEPT ![l] = BenchmarkDirs(ReadDir(dirNames))]
          /\ ctrCalls' = [ctrCalls EXCEPT ![l] = @ + 1]
          /\ imgCalls' = [imgCalls EXCEPT ![l] = @ + 1]
          /\ listPc' = [listPc EXCEPT ![l] = "polling"]
          /\ UNCHANGED listResult
       \/ /\ ~fsReadable                       \* catch (error): return []
          /\ listResult' = [listResult EXCEPT ![l] = <<>>]
          /\ listPc' = [listPc EXCEPT ![l] = "done"]
          /\ UNCHANGED <<listDirs, ctrCalls, imgCalls>>
    /\ UNCHANGED <<dockerUp, containerState, daemonEvents, fsReadable, manifest, dirNames, dirEvents,
                   containers, images, listPollOk, listInfos, lifeVars, fixVars, gwVars, apiVars>>

\* getBenchmarkInfo(name, benchmarkPath) up to the two daemon requests. The call
\* shares no variable with a refresh, so it is taken between refreshes.
GetStart(g, name) ==
    /\ listPc[g] = "idle"
    /\ \A l \in ListCallers : listPc[l] \in {"idle", "done"}
    /\ listDirs' = [listDirs EXCEPT ![g] = <<name>>]
    /\ ctrCalls' = [ctrCalls EXCEPT ![g] = @ + 1]
    /\ imgCalls' = [imgCalls EXCEPT ![g] = @ + 1]
    /\ listPc' = [listPc EXCEPT ![g] = "polling"]
    /\ UNCHANGED <<dockerUp, containerState, daemonEvents, fsReadable, manifest, dirVars, containers,
                   images, listPollOk, listInfos, listResult, lifeVars, fixVars, gwVars, apiVars>>

\* Promise.all([listContainers().catch(() => []), listImages().catch(() => [])])
PollDone(l) ==
    /\ listPc[l] = "polling"
    /\ containers' = [containers EXCEPT ![l] = IF dockerUp THEN DaemonContainers ELSE <<>>]
    /\ images' = [images EXCEPT ![l] = IF dockerUp THEN DockerImages ELSE <<>>]
    /\ listPollOk' = [listPollOk EXCEPT ![l] = dockerUp]
    /\ listInfos' = [listInfos EXCEPT ![l] = [i \in 1..Len(listDirs[l]) |-> NoInfo]]
    /\ listPc' = [listPc EXCEPT ![l] = "assembling"]
    /\ UNCHANGED <<dockerUp, containerState, daemonEvents, fsReadable, manifest, dirVars, listDirs,
                   listResult, ctrCalls, imgCalls, lifeVars, fixVars, gwVars, apiVars>>

\* An earlier revision of listBenchmarks: every unit fetches the containers itself
AssembleRefetch(l, i) ==
    /\ listPc[l] = "assembling"
    /\ i \in 1..Len(listDirs[l])
    /\ listInfos[l][i] = NoInfo
    /\ listInfos' = [listInfos EXCEPT ![l][i] =
          getBenchmarkInfoFast(listDirs[l][i],
                               IF dockerUp THEN DaemonContainers ELSE <<>>, images[l])]
    /\ ctrCalls' = [ctrCalls EXCEPT ![l] = @ + 1]
    /\ UNCHANGED <<dockerUp, containerState, daemonEvents, fsReadable, manifest, dirVars, listPc, listDirs,
                   containers, images, listPollOk, listResult, imgCalls, lifeVars, fixVars, gwVars, apiVars>>

\* One of the parallel getBenchmarkInfoFast(entry.name, path, containers, images)
Assemble(l, i) ==
    /\ listPc[l] = "assembling"
    /\ i \in 1..Len(listDirs[l])
    /\ listInfos[l][i] = NoInfo
    /\ listInfos' = [listInfos EXCEPT ![l][i] =
          getBenchmarkInfoFast(listDirs[l][i], containers[l], images[l])]
    /\ UNCHANGED <<dockerUp, containerState, daemonEvents, fsReadable, manifest, dirVars, listPc, listDirs,
                   containers, images, listPollOk, listResult, ctrCalls, imgCalls, lifeVars, fixVars, gwVars, apiVars>>

AllAssembled(l) == \A i \in 1..Len(listDirs[l]) : listInfos[l][i] # NoInfo

\* await Promise.all(...) resumes; sort by numeric id; return benchmarks
ListReturn(l) ==
    /\ l \in ListCallers
    /\ listPc[l] = "assembling"
    /\ AllAssembled(l)
    /\ listResult' = [listResult EXCEPT ![l] =
                         IF \E i \in 1..Len(listInfos[l]) : listInfos[l][i].rejected
                         THEN <<>>                  \* catch (error): return []
                         ELSE SortBenchmarks(listInfos[l])]
    /\ listPc' = [listPc EXCEPT ![l] = "done"]
    /\ UNCHANGED <<dockerUp, containerState, daemonEvents, fsReadable, manifest, dirVars, listDirs,
                   containers, images, listPollOk, listInfos, ctrCalls, imgCalls, lifeVars, fixVars, gwVars, apiVars>>

\* return getBenchmarkInfoFast(name, benchmarkPath, containers, images)
GetReturn(g) ==
    /\ g \in GetCallers
    /\ listPc[g] = "assembling"
    /\ AllAssembled(g)
    /\ listResult' = [listResult EXCEPT ![g] = listInfos[g]]
    /\ listPc' = [listPc EXCEPT ![g] = "done"]
    /\ UNCHANGED <<dockerUp, containerState, daemonEvents, fsReadable, manifest, dirVars, listDirs,
                   containers, images, listPollOk, listInfos, ctrCalls, imgCalls, lifeVars, fixVars, gwVars, apiVars>>

\* A call observes the daemon when its two requests are answered
Observed == \E l \in Callers : listPc[l] = "polling"

\* The daemon's containers change under the callers. Only the answer to a pending
\* request shows the change, so it is taken while a request is pending.
ContainerChange(c, s) ==
    /\ daemonEvents < MaxDaemonEvents
    /\ Observed
    /\ containerState[c] # s
    /\ containerState' = [containerState EXCEPT ![c] = s]
    /\ daemonEvents' = daemonEvents + 1
    /\ UNCHANGED <<dockerUp, fsReadable, manifest, dirVars, listPc, listDirs, containers, images,
                   listPollOk, listInfos, listResult, ctrCalls, imgCalls, lifeVars, fixVars, gwVars, apiVars>>

\* A sub-directory of the benchmarks path is created or deleted between calls. Only
\* the scan of a later listBenchmarks call reads the directory, so a change while
\* a call is past its scan is the same change made after that call returned.
DirChange(name) ==
    /\ dirEvents < MaxDirEvents
    /\ \A l \in Callers : listPc[l] \in {"idle", "done"}
    /\ dirNames' = IF name \in dirNames THEN dirNames \ {name} ELSE dirNames \cup {name}
    /\ dirEvents' = dirEvents + 1
    /\ UNCHANGED <<dockerUp, containerState, daemonEvents, fsReadable, manifest, dirAtCall, listPc,
                   listDirs, containers, images, listPollOk, listInfos, listResult,
                   ctrCalls, imgCalls, lifeVars, fixVars, gwVars, apiVars>>

\* The daemon socket goes away or comes back
DaemonFlip ==
    /\ daemonEvents < MaxDaemonEvents
    /\ Observed
    /\ dockerUp' = ~dockerUp
    /\ daemonEvents' = daemonEvents + 1
    /\ UNCHANGED <<containerState, fsReadable, manifest, dirVars, listPc, listDirs, containers, images,
                   listPollOk, listInfos, listResult, ctrCalls, imgCalls, lifeVars, fixVars, gwVars, apiVars>>

\* Daemon states a refresh may start from
InitialFleets ==
    { [c1 |-> "absent",  c2 |-> "absent",  c3 |-> "absent",  c4 |-> "absent"],
      [c1 |-> "running", c2 |-> "running", c3 |-> "absent",  c4 |-> "absent"],
      [c1 |-> "running", c2 |-> "exited",  c3 |-> "running", c4 |-> "absent"],
      [c1 |-> "exited",  c2 |-> "exited",  c3 |-> "exited",  c4 |-> "running"] }

CatInit ==
    /\ dockerUp \in BOOLEAN
    /\ containerState \in InitialFleets
    /\ daemonEvents = 0
    /\ fsReadable \in BOOLEAN
    /\ manifest = [n \in DirectoryNames |-> ManifestFile("good")]
    /\ dirNames = {"XBEN-002-24", "notes", "XBEN-001-24"}
    /\ dirEvents = 0
    /\ dirAtCall = [l \in Callers |-> {}]
    /\ listPc = [l \in Callers |-> "idle"]
    /\ listDirs = [l \in Callers |-> <<>>]
    /\ containers = [l \in Callers |-> <<>>]
    /\ images = [l \in Callers |-> <<>>]
    /\ listPollOk = [l \in Callers |-> FALSE]
    /\ listInfos = [l \in Callers |-> <<>>]
    /\ listResult = [l \in Callers |-> <<>>]
    /\ ctrCalls = [l \in Callers |-> 0]
    /\ imgCalls = [l \in Callers |-> 0]

CatNext ==
    \/ \E l \in ListCallers : ListStart(l)
    \/ \E g \in GetCallers, name \in UnitNames : GetStart(g, name)
    \/ \E l \in Callers : PollDone(l)
    \/ \E l \in Callers, i \in 1..Len(DirEntries) : Assemble(l, i)
    \/ \E l \in Callers : ListReturn(l)
    \/ \E g \in Callers : GetReturn(g)
    \/ \E c \in {"c1", "c2", "c3", "c4"}, s \in ContainerStates : ContainerChange(c, s)
    \/ DaemonFlip

\* Refreshes of a benchmarks directory that changes between them
DirNext ==
    \/ \E l \in ListCallers : ListStart(l)
    \/ \E l \in ListCallers : PollDone(l)
    \/ \E l \in ListCallers, i \in 1..Len(DirEntries) : Assemble(l, i)
    \/ \E l \in ListCallers : ListReturn(l)
    \/ \E name \in DirectoryNames : DirChange(name)

-----------------------------------------------------------------------------
\* Lifecycle controller: buildBenchmark, startBenchmark, stopBenchmark,
\* restartBenchmark, called by POST /api/benchmarks/[id]

Requests == {"r1", "r2"}
Actions == {"build", "start", "stop", "restart"}
ExitCodes == {0, 1}

\* Lines a compose subprocess writes
PlainLine == "Container xben-web-1  Started"
UpperLine == "Error response from daemon: port is already allocated"
LowerLine == "compose build error: exit status 1"
Lines == {PlainLine, UpperLine, LowerLine}

\* line.includes('Error') and line.includes('error')
IncludesUpperError(line) == line = UpperLine
IncludesLowerError(line) == line = LowerLine

\* ports: Record<string, number> of a start result; 0 marks a key the map lacks
NoPortMap == [k \in PortKeys |-> 0]

NoResult == [success |-> FALSE, hasError |-> FALSE, error |-> <<"pending">>,
             hasPorts |-> FALSE, ports |-> NoPortMap]
Unresolved == [via |-> "none", code |-> 0]

\* `${Op} failed with code ${code}`
FailedWithCode(o, code) ==
    << CASE o = "build" -> "Build"
         [] o = "start" -> "Start"
         [] o = "stop" -> "Stop"
         [] OTHER -> "Restart",
       "failed with code", ToString(code) >>

\* err.message of a subprocess 'error' event
SpawnErrorMessage == <<"spawn /bin/sh ENOENT">>

\* Where a stderr line goes, per operation: [toError, toSink]
BuildStderr(line) == [toError |-> TRUE, toSink |-> TRUE]

StartStderr(line) ==
    IF ~IncludesUpperError(line) /\ ~IncludesLowerError(line)
    THEN [toError |-> FALSE, toSink |-> TRUE]
    ELSE [toError |-> TRUE, toSink |-> FALSE]

StopStderr(line) ==
    IF IncludesUpperError(line) \/ IncludesLowerError(line)
    THEN [toError |-> TRUE, toSink |-> FALSE]
    ELSE [toError |-> FALSE, toSink |-> TRUE]

\* A restart handler that filters like start and stop do
RestartStderrBothMarkers(line) ==
    IF IncludesUpperError(line) \/ IncludesLowerError(line)
    THEN [toError |-> TRUE, toSink |-> FALSE]
    ELSE [toError |-> FALSE, toSink |-> TRUE]

RestartStderr(line) ==
    IF IncludesUpperError(line)
    THEN [toError |-> TRUE, toSink |-> FALSE]
    ELSE [toError |-> FALSE, toSink |-> TRUE]

StderrRoute(o, line) ==
    CASE o = "build" -> BuildStderr(line)
      [] o = "start" -> StartStderr(line)
      [] o = "stop" -> StopStderr(line)
      [] OTHER -> RestartStderr(line)

ChunksSoFar == Len(arrived["r1"]) + Len(arrived["r2"])

\* resolve(v) of a promise that takes every call, settled or not
ResolveAgain(r, v, via, code) ==
    /\ settled' = [settled EXCEPT ![r] = TRUE]
    /\ result' = [result EXCEPT ![r] = v]
    /\ resolvedBy' = [resolvedBy EXCEPT ![r] = [via |-> via, code |-> code]]
    /\ delivered' = [delivered EXCEPT ![r] = @ + 1]

\* resolve(v) of `new Promise((resolve) => ...)`: the first call settles the
\* promise and resumes the awaiting caller, later calls do nothing
Resolve(r, v, via, code) ==
    IF settled[r]
    THEN UNCHANGED <<settled, result, resolvedBy, delivered>>
    ELSE /\ settled' = [settled EXCEPT ![r] = TRUE]
         /\ result' = [result EXCEPT ![r] = v]
         /\ resolvedBy' = [resolvedBy EXCEPT ![r] = [via |-> via, code |-> code]]
         /\ delivered' = [delivered EXCEPT ![r] = @ + 1]

\* The `port` a start request may carry; 0 stands for none
PortOverrides == {0, 8082}

\* process.env as the server was started
AmbientEnv == [PORT |-> "3000", HOST_PORT |-> "unset", DOCKER_BUILDKIT |-> "unset",
               COMPOSE_DOCKER_CLI_BUILD |-> "unset"]

\* { ...process.env, DOCKER_BUILDKIT: '0', COMPOSE_DOCKER_CLI_BUILD: '0' }
BuildEnv(penv) ==
    [penv EXCEPT !.DOCKER_BUILDKIT = "0", !.COMPOSE_DOCKER_CLI_BUILD = "0"]

\* if (port) { env['PORT'] = String(port); env['HOST_PORT'] = String(port) }
SetPort(env, port) ==
    IF port # 0
    THEN [env EXCEPT !.PORT = PortString(port), !.HOST_PORT = PortString(port)]
    ELSE env

\* A start that writes its port into process.env and hands that to the child
SpawnEnvInPlace(r, o, port) ==
    /\ processEnv' = IF o = "start" THEN SetPort(processEnv, port) ELSE processEnv
    /\ childEnv' = [childEnv EXCEPT ![r] =
                       IF o \in {"build", "start"} THEN BuildEnv(processEnv')
                       ELSE processEnv']

\* The environment spawn() gives the child: build and start pass a copy of
\* process.env with their settings, stop and restart pass none and the child
\* inherits process.env
SpawnEnv(r, o, port) ==
    /\ childEnv' = [childEnv EXCEPT ![r] =
                       CASE o = "build" -> BuildEnv(processEnv)
                         [] o = "start" -> SetPort(BuildEnv(processEnv), port)
                         [] OTHER -> processEnv]
    /\ UNCHANGED processEnv

\* A controller that runs two compose subprocesses for one request
CallSpawnTwice(r, o, u, port) ==
    /\ reqPc[r] = "idle"
    /\ r = "r2" => reqPc["r1"] # "idle"
    /\ reqPc' = [reqPc EXCEPT ![r] = "spawned"]
    /\ reqOp' = [reqOp EXCEPT ![r] = o]
    /\ reqUnit' = [reqUnit EXCEPT ![r] = u]
    /\ reqPort' = [reqPort EXCEPT ![r] = port]
    /\ SpawnEnv(r, o, port)
    /\ spawned' = [spawned EXCEPT ![r] = @ + 2]
    /\ procAlive' = [procAlive EXCEPT ![r] = @ + 2]
    /\ UNCHANGED <<requery, arrived, error, sink, settled, result, resolvedBy,
                   delivered, errorEvents, catVars, fixVars, gwVars, apiVars>>

\* A controller that runs one compose subprocess at a time: a request is
\* spawned when the subprocesses of the other requests have closed
CallAfterOthers(r, o, u, port) ==
    /\ reqPc[r] = "idle"
    /\ r = "r2" => reqPc["r1"] # "idle"
    /\ \A q \in Requests \ {r} : procAlive[q] = 0
    /\ reqPc' = [reqPc EXCEPT ![r] = "spawned"]
    /\ reqOp' = [reqOp EXCEPT ![r] = o]
    /\ reqUnit' = [reqUnit EXCEPT ![r] = u]
    /\ reqPort' = [reqPort EXCEPT ![r] = port]
    /\ SpawnEnv(r, o, port)
    /\ spawned' = [spawned EXCEPT ![r] = @ + 1]
    /\ procAlive' = [procAlive EXCEPT ![r] = @ + 1]
    /\ UNCHANGED <<requery, arrived, error, sink, settled, result, resolvedBy,
                   delivered, errorEvents, catVars, fixVars, gwVars, apiVars>>

\* POST: const { action, port } = body; switch (action) ... await
\* xxxBenchmark(id) or startBenchmark(id, port): the promise is created, the
\* subprocess spawned in the unit's directory and the handlers attached
Call(r, o, u, port) ==
    /\ reqPc[r] = "idle"
    /\ r = "r2" => reqPc["r1"] # "idle"       \* the requests are interchangeable
    /\ reqPc' = [reqPc EXCEPT ![r] = "spawned"]
    /\ reqOp' = [reqOp EXCEPT ![r] = o]
    /\ reqUnit' = [reqUnit EXCEPT ![r] = u]
    /\ reqPort' = [reqPort EXCEPT ![r] = port]
    /\ SpawnEnv(r, o, port)
    /\ spawned' = [spawned EXCEPT ![r] = @ + 1]
    /\ procAlive' = [procAlive EXCEPT ![r] = @ + 1]
    /\ UNCHANGED <<requery, arrived, error, sink, settled, result, resolvedBy,
                   delivered, errorEvents, catVars, fixVars, gwVars, apiVars>>

\* proc.stdout.on('data')
OnStdout(r, line) ==
    /\ reqPc[r] = "spawned" /\ procAlive[r] > 0
    /\ ChunksSoFar < MaxChunks
    /\ arrived' = [arrived EXCEPT ![r] = Append(@, [stream |-> "stdout", line |-> line])]
    /\ sink' = [sink EXCEPT ![r] = Append(@, line)]
    /\ UNCHANGED <<reqPc, reqOp, reqUnit, reqPort, childEnv, processEnv, spawned, procAlive, requery, error, settled,
                   result, resolvedBy, delivered, errorEvents, catVars, fixVars, gwVars, apiVars>>

\* proc.stderr.on('data')
OnStderr(r, line) ==
    /\ reqPc[r] = "spawned" /\ procAlive[r] > 0
    /\ ChunksSoFar < MaxChunks
    /\ arrived' = [arrived EXCEPT ![r] = Append(@, [stream |-> "stderr", line |-> line])]
    /\ error' = [error EXCEPT ![r] =
                    IF StderrRoute(reqOp[r], line).toError THEN Append(@, line) ELSE @]
    /\ sink' = [sink EXCEPT ![r] =
                    IF StderrRoute(reqOp[r], line).toSink THEN Append(@, line) ELSE @]
    /\ UNCHANGED <<reqPc, reqOp, reqUnit, reqPort, childEnv, processEnv, spawned, procAlive, requery, settled,
                   result, resolvedBy, delivered, errorEvents, catVars, fixVars, gwVars, apiVars>>

\* Node emits 'error' for a child that could not be spawned and closes such a
\* child with a negative code: a child with an 'error' event never closes with 0
ErrorEmitted(r) == resolvedBy[r].via = "error"

\* The child closed with code 0: the result is decided or a re-query is pending
ClosedZero(r) ==
    \/ requery[r]
    \/ resolvedBy[r].via = "requery"
    \/ resolvedBy[r].via = "close" /\ resolvedBy[r].code = 0

\* parseInt(pubs[0])
ParseInt(str) ==
    CASE str = "80" -> 80
      [] str = "3306" -> 3306
      [] str = "8080" -> 8080
      [] str = "8081" -> 8081
      [] str = "8082" -> 8082
      [] OTHER -> 0

\* Object.entries(info.ports).forEach(([priv, pubs]) => {
\*   if (pubs[0]) ports[priv] = parseInt(pubs[0]) })
StartPorts(infoPorts) ==
    [k \in PortKeys |-> IF infoPorts[k] # <<>> THEN ParseInt(infoPorts[k][1]) ELSE 0]

\* getBenchmarkInfo(name, benchmarkPath) answered by the daemon as it is now
getBenchmarkInfo(name) ==
    getBenchmarkInfoFast(name, IF dockerUp THEN DaemonContainers ELSE <<>>,
                         IF dockerUp THEN DockerImages ELSE <<>>)

\* A close handler that answers a start from the close event alone
OnCloseNoRequery(r, code) ==
    /\ reqPc[r] = "spawned" /\ procAlive[r] > 0
    /\ code = 0 => ~ErrorEmitted(r)
    /\ procAlive' = [procAlive EXCEPT ![r] = @ - 1]
    /\ Resolve(r, [success |-> code = 0, hasError |-> code # 0,
                   error |-> IF code = 0 THEN <<>>
                             ELSE IF error[r] # <<>> THEN error[r]
                             ELSE FailedWithCode(reqOp[r], code),
                   hasPorts |-> reqOp[r] = "start",
                   ports |-> IF reqOp[r] = "start"
                             THEN StartPorts(getBenchmarkInfo(reqUnit[r]).ports)
                             ELSE NoPortMap],
               "close", code)
    /\ UNCHANGED <<reqPc, reqOp, reqUnit, reqPort, childEnv, processEnv, spawned, requery, arrived, error, sink,
                   errorEvents, catVars, fixVars, gwVars, apiVars>>

\* A close handler that runs the operation again when it failed
OnCloseRetry(r, code) ==
    /\ reqPc[r] = "spawned" /\ procAlive[r] > 0
    /\ code = 0 => ~ErrorEmitted(r)
    /\ IF code = 0
       THEN /\ procAlive' = [procAlive EXCEPT ![r] = @ - 1]
            /\ UNCHANGED spawned
            /\ IF reqOp[r] = "start"
               THEN requery' = [requery EXCEPT ![r] = TRUE]
                    /\ UNCHANGED <<settled, result, resolvedBy, delivered>>
               ELSE Resolve(r, [success |-> TRUE, hasError |-> FALSE, error |-> <<>>,
                               hasPorts |-> FALSE, ports |-> NoPortMap],
                            "close", code)
                    /\ UNCHANGED requery
       ELSE /\ spawned[r] < 2
            /\ spawned' = [spawned EXCEPT ![r] = @ + 1]
            /\ UNCHANGED <<procAlive, requery, settled, result, resolvedBy, delivered>>
    /\ UNCHANGED <<reqPc, reqOp, reqUnit, reqPort, childEnv, processEnv, arrived, error, sink, errorEvents, catVars, fixVars, gwVars, apiVars>>

\* A close handler that fails the call when error text was captured
OnCloseErrorWins(r, code) ==
    /\ reqPc[r] = "spawned" /\ procAlive[r] > 0
    /\ code = 0 => ~ErrorEmitted(r)
    /\ procAlive' = [procAlive EXCEPT ![r] = @ - 1]
    /\ IF code = 0 /\ error[r] = <<>>
       THEN IF reqOp[r] = "start"
            THEN requery' = [requery EXCEPT ![r] = TRUE]
                 /\ UNCHANGED <<settled, result, resolvedBy, delivered>>
            ELSE Resolve(r, [success |-> TRUE, hasError |-> FALSE, error |-> <<>>,
                               hasPorts |-> FALSE, ports |-> NoPortMap],
                         "close", code)
                 /\ UNCHANGED requery
       ELSE Resolve(r, [success |-> FALSE, hasError |-> TRUE,
                        error |-> IF error[r] # <<>> THEN error[r]
                                  ELSE FailedWithCode(reqOp[r], code),
                        hasPorts |-> FALSE, ports |-> NoPortMap],
                    "close", code)
            /\ UNCHANGED requery
    /\ UNCHANGED <<reqPc, reqOp, reqUnit, reqPort, childEnv, processEnv, spawned, arrived, error, sink, errorEvents,
                   catVars, fixVars, gwVars, apiVars>>

\* proc.on('close', (code) => ...)
OnClose(r, code) ==
    /\ reqPc[r] = "spawned" /\ procAlive[r] > 0
    /\ code = 0 => ~ErrorEmitted(r)
    /\ procAlive' = [procAlive EXCEPT ![r] = @ - 1]
    /\ IF code = 0
       THEN IF reqOp[r] = "start"
            THEN requery' = [requery EXCEPT ![r] = TRUE]     \* await getBenchmarkInfo
                 /\ UNCHANGED <<settled, result, resolvedBy, delivered>>
            ELSE Resolve(r, [success |-> TRUE, hasError |-> FALSE, error |-> <<>>,
                               hasPorts |-> FALSE, ports |-> NoPortMap],
                         "close", code)
                 /\ UNCHANGED requery
       ELSE Resolve(r, [success |-> FALSE, hasError |-> TRUE,
                        error |-> IF error[r] # <<>> THEN error[r]
                                  ELSE FailedWithCode(reqOp[r], code),
                        hasPorts |-> FALSE, ports |-> NoPortMap],
                    "close", code)
            /\ UNCHANGED requery
    /\ UNCHANGED <<reqPc, reqOp, reqUnit, reqPort, childEnv, processEnv, spawned, arrived, error, sink, errorEvents,
                   catVars, fixVars, gwVars, apiVars>>

\* A re-query that rejects when the daemon does not answer: the close handler
\* ends there and never resolves
RequeryDoneUncaught(r) ==
    /\ requery[r]
    /\ requery' = [requery EXCEPT ![r] = FALSE]
    /\ IF dockerUp
       THEN Resolve(r, [success |-> TRUE, hasError |-> FALSE, error |-> <<>>,
                        hasPorts |-> TRUE,
                        ports |-> StartPorts(getBenchmarkInfo(reqUnit[r]).ports)],
                    "requery", 0)
       ELSE UNCHANGED <<settled, result, resolvedBy, delivered>>
    /\ UNCHANGED <<reqPc, reqOp, reqUnit, reqPort, childEnv, processEnv, spawned, procAlive, arrived, error, sink,
                   errorEvents, catVars, fixVars, gwVars, apiVars>>

\* startBenchmark's close handler resumes after getBenchmarkInfo: resolve success
RequeryDone(r) ==
    /\ requery[r]
    /\ requery' = [requery EXCEPT ![r] = FALSE]
    /\ Resolve(r, [success |-> TRUE, hasError |-> FALSE, error |-> <<>>,
                   hasPorts |-> TRUE,
                   ports |-> StartPorts(getBenchmarkInfo(reqUnit[r]).ports)],
               "requery", 0)
    /\ UNCHANGED <<reqPc, reqOp, reqUnit, reqPort, childEnv, processEnv, spawned, procAlive, arrived, error, sink,
                   errorEvents, catVars, fixVars, gwVars, apiVars>>

\* proc.on('error', (err) => ...)
OnError(r) ==
    /\ reqPc[r] = "spawned"
    /\ ~ClosedZero(r)
    /\ errorEvents < MaxErrorEvents
    /\ errorEvents' = errorEvents + 1
    /\ Resolve(r, [success |-> FALSE, hasError |-> TRUE, error |-> SpawnErrorMessage,
                   hasPorts |-> FALSE, ports |-> NoPortMap],
               "error", 0)
    /\ UNCHANGED <<reqPc, reqOp, reqUnit, reqPort, childEnv, processEnv, spawned, procAlive, requery, arrived, error,
                   sink, catVars, fixVars, gwVars, apiVars>>

\* The daemon stops answering while a start waits for its re-query:
\* docker.listContainers and docker.listImages of getBenchmarkInfo reject
RequeryOutage(r) ==
    /\ requery[r]
    /\ dockerUp
    /\ daemonEvents < MaxDaemonEvents
    /\ dockerUp' = FALSE
    /\ daemonEvents' = daemonEvents + 1
    /\ UNCHANGED <<containerState, fsReadable, manifest, dirVars, listPc, listDirs,
                   containers, images, listPollOk, listInfos, listResult, ctrCalls,
                   imgCalls, lifeVars, fixVars, gwVars, apiVars>>

\* The containers of a unit's compose project
ComposeContainers(u) ==
    {c \in {"c1", "c2", "c3", "c4"} : ContainerTable[c].Label = ToLowerCase(u)}

\* What the running subprocess does to the daemon: `docker compose up -d` runs
\* the containers of the unit, `docker compose down` removes them
ComposeEffect(r) ==
    /\ reqPc[r] = "spawned" /\ procAlive[r] > 0
    /\ reqOp[r] \in {"start", "stop"}
    /\ \E c \in ComposeContainers(reqUnit[r]) :
          containerState[c] # (IF reqOp[r] = "start" THEN "running" ELSE "absent")
    /\ containerState' =
          [c \in {"c1", "c2", "c3", "c4"} |->
              IF c \in ComposeContainers(reqUnit[r])
              THEN (IF reqOp[r] = "start" THEN "running" ELSE "absent")
              ELSE containerState[c]]
    /\ UNCHANGED <<dockerUp, daemonEvents, fsReadable, manifest, dirVars, listPc, listDirs,
                   containers, images, listPollOk, listInfos, listResult, ctrCalls,
                   imgCalls, lifeVars, fixVars, gwVars, apiVars>>

LifeQuiet ==
    /\ reqPc = [r \in Requests |-> "idle"]
    /\ reqOp = [r \in Requests |-> "build"]
    /\ reqUnit = [r \in Requests |-> "XBEN-001-24"]
    /\ reqPort = [r \in Requests |-> 0]
    /\ childEnv = [r \in Requests |-> AmbientEnv]
    /\ processEnv = AmbientEnv
    /\ spawned = [r \in Requests |-> 0]
    /\ procAlive = [r \in Requests |-> 0]
    /\ requery = [r \in Requests |-> FALSE]
    /\ arrived = [r \in Requests |-> <<>>]
    /\ error = [r \in Requests |-> <<>>]
    /\ sink = [r \in Requests |-> <<>>]
    /\ settled = [r \in Requests |-> FALSE]
    /\ result = [r \in Requests |-> NoResult]
    /\ resolvedBy = [r \in Requests |-> Unresolved]
    /\ delivered = [r \in Requests |-> 0]
    /\ errorEvents = 0

CatQuiet ==
    /\ dockerUp = TRUE
    /\ containerState = [c1 |-> "running", c2 |-> "running", c3 |-> "absent", c4 |-> "absent"]
    /\ daemonEvents = 0
    /\ fsReadable = TRUE
    /\ manifest = [n \in DirectoryNames |-> ManifestFile("good")]
    /\ dirNames = {"XBEN-002-24", "notes", "XBEN-001-24"}
    /\ dirEvents = 0
    /\ dirAtCall = [l \in Callers |-> {}]
    /\ listPc = [l \in Callers |-> "idle"]
    /\ listDirs = [l \in Callers |-> <<>>]
    /\ containers = [l \in Callers |-> <<>>]
    /\ images = [l \in Callers |-> <<>>]
    /\ listPollOk = [l \in Callers |-> FALSE]
    /\ listInfos = [l \in Callers |-> <<>>]
    /\ listResult = [l \in Callers |-> <<>>]
    /\ ctrCalls = [l \in Callers |-> 0]
    /\ imgCalls = [l \in Callers |-> 0]

-----------------------------------------------------------------------------
\* Compatibility patcher: lib/fixer.ts

\* Buster-based images that need fixing (the markers the model's tokens can hold)
BUSTER_BASED_IMAGES == {"python:2.7", "debian:buster", "php:7.3", "httpd:2.4.49"}

\* Broken MySQL images, in the table's order: 'mysql:5.7.15': 'mysql:5.7', ...
BROKEN_MYSQL_IMAGES ==
    << [old |-> <<"mysql:5.7", ".15">>, new |-> <<"mysql:5.7">>],
       [old |-> <<"mysql:5.7", ".14">>, new |-> <<"mysql:5.7">>],
       [old |-> <<"mysql:5.7", ".13">>, new |-> <<"mysql:5.7">>],
       [old |-> <<"mysql:5.7", ".12">>, new |-> <<"mysql:5.7">>],
       [old |-> <<"mysql:5.6">>,        new |-> <<"mysql:5.7">>] >>

\* \s of a regular expression
IsSpace(t) == t \in {" ", "\n"}

RECURSIVE SpaceRun(_, _)
SpaceRun(s, i) == IF i <= Len(s) /\ IsSpace(s[i]) THEN 1 + SpaceRun(s, i + 1) ELSE 0

\* pat occurs in s at position i, compared without case
MatchesAtIgnoreCase(s, i, pat) ==
    /\ i + Len(pat) - 1 <= Len(s)
    /\ \A k \in 1..Len(pat) : ToLowerCase(s[i + k - 1]) = ToLowerCase(pat[k])

\* Length of the match of new RegExp(`FROM\\s+${oldImage}`, 'gi') at position i, or 0
FromImageMatch(s, i, image) ==
    IF i <= Len(s) /\ ToLowerCase(s[i]) = "from"
    THEN LET w == SpaceRun(s, i + 1)
         IN IF w >= 1 /\ MatchesAtIgnoreCase(s, i + 1 + w, image)
            THEN 1 + w + Len(image) ELSE 0
    ELSE 0

\* content.replace(new RegExp(`FROM\\s+${oldImage}`, 'gi'), `FROM ${newImage}`)
RECURSIVE ReplaceFromImage(_, _, _, _)
ReplaceFromImage(s, i, image, newImage) ==
    IF i > Len(s) THEN <<>>
    ELSE LET m == FromImageMatch(s, i, image)
         IN IF m > 0
            THEN <<"FROM", " ">> \o newImage \o ReplaceFromImage(s, i + m, image, newImage)
            ELSE <<s[i]>> \o ReplaceFromImage(s, i + 1, image, newImage)

\* A mysql rule that reports the image without rewriting it
RECURSIVE FixMysqlReportOnly(_, _, _, _)
FixMysqlReportOnly(content, fixes, k, relativePath) ==
    IF k > Len(BROKEN_MYSQL_IMAGES) THEN [content |-> content, fixes |-> fixes]
    ELSE IF Includes(content, <<"FROM", " ">> \o BROKEN_MYSQL_IMAGES[k].old)
         THEN FixMysqlReportOnly(content,
                  Append(fixes, [type |-> "mysql", file |-> relativePath,
                                 detail |-> BROKEN_MYSQL_IMAGES[k].old]),
                  k + 1, relativePath)
         ELSE FixMysqlReportOnly(content, fixes, k + 1, relativePath)

\* for (const [oldImage, newImage] of Object.entries(BROKEN_MYSQL_IMAGES)) of fixBenchmark
RECURSIVE FixMysql(_, _, _, _)
FixMysql(content, fixes, k, relativePath) ==
    IF k > Len(BROKEN_MYSQL_IMAGES) THEN [content |-> content, fixes |-> fixes]
    ELSE IF Includes(content, <<"FROM", " ">> \o BROKEN_MYSQL_IMAGES[k].old)
         THEN FixMysql(ReplaceFromImage(content, 1, BROKEN_MYSQL_IMAGES[k].old,
                                        BROKEN_MYSQL_IMAGES[k].new),
                       Append(fixes, [type |-> "mysql", file |-> relativePath,
                                      detail |-> BROKEN_MYSQL_IMAGES[k].old]),
                       k + 1, relativePath)
         ELSE FixMysql(content, fixes, k + 1, relativePath)

\* BUSTER_BASED_IMAGES.some(img => content.toLowerCase().includes(img.toLowerCase()))
UsesBuster(content) ==
    \E i \in 1..Len(content) : ToLowerCase(content[i]) \in BUSTER_BASED_IMAGES

\* content.split('\n')
RECURSIVE Split(_)
Split(s) ==
    IF \A i \in 1..Len(s) : s[i] # "\n" THEN <<s>>
    ELSE LET k == CHOOSE i \in 1..Len(s) : s[i] = "\n" /\ \A j \in 1..(i - 1) : s[j] # "\n"
         IN <<SubSeq(s, 1, k - 1)>> \o Split(SubSeq(s, k + 1, Len(s)))

\* newLines.join('\n')
RECURSIVE Join(_)
Join(lines) ==
    IF lines = <<>> THEN <<>>
    ELSE IF Len(lines) = 1 THEN lines[1]
    ELSE lines[1] \o <<"\n">> \o Join(Tail(lines))

\* The five lines pushed before the first 'apt-get update' line
RepoFixLines ==
    << <<>>,
       <<"# Fix for archived Debian Buster repos (EOL)">>,
       <<"RUN", " ", "echo \"deb http://", "archive.debian.org",
         "/debian buster main\" > /etc/apt/sources.list && \\">>,
       <<"    ", "echo \"deb http://", "archive.debian.org",
         "/debian-security buster/updates main\" >> /etc/apt/sources.list">>,
       <<>> >>

\* line.toLowerCase().includes('apt-get update')
LineHasAptUpdate(line) == \E i \in 1..Len(line) : ToLowerCase(line[i]) = "apt-get update"

\* for (const line of lines) { if (!fixed && ...) {...; fixed = true}; newLines.push(line) }
RECURSIVE InsertRepoFix(_, _)
InsertRepoFix(lines, fixed) ==
    IF lines = <<>> THEN <<>>
    ELSE IF ~fixed /\ LineHasAptUpdate(Head(lines))
         THEN RepoFixLines \o <<Head(lines)>> \o InsertRepoFix(Tail(lines), TRUE)
         ELSE <<Head(lines)>> \o InsertRepoFix(Tail(lines), fixed)

\* content.replace(/apt-get update(?!\s+-o)/g, 'apt-get update -o Acquire::Check-Valid-Until=false')
RECURSIVE ReplaceAptUpdate(_, _)
ReplaceAptUpdate(s, i) ==
    IF i > Len(s) THEN <<>>
    ELSE IF s[i] = "apt-get update"
            /\ ~(LET w == SpaceRun(s, i + 1)
                 IN w >= 1 /\ i + 1 + w <= Len(s) /\ s[i + 1 + w] = "-o")
         THEN <<"apt-get update", " ", "-o", " ", "Acquire::Check-Valid-Until=false">>
              \o ReplaceAptUpdate(s, i + 1)
         ELSE <<s[i]>> \o ReplaceAptUpdate(s, i + 1)

\* A buster rule that does not look for the archive mirror first
FixBusterUngated(content, fixes, relativePath) ==
    IF UsesBuster(content)
    THEN LET lines == Split(content)
             newLines == InsertRepoFix(lines, FALSE)
             fixed == \E i \in 1..Len(lines) : LineHasAptUpdate(lines[i])
         IN [content |-> ReplaceAptUpdate(Join(newLines), 1),
             fixes |-> IF fixed
                       THEN Append(fixes, [type |-> "buster", file |-> relativePath,
                                           detail |-> <<"archive.debian.org">>])
                       ELSE fixes]
    ELSE [content |-> content, fixes |-> fixes]

\* Fix Buster-based images
FixBuster(content, fixes, relativePath) ==
    IF UsesBuster(content) /\ ~Includes(content, <<"archive.debian.org">>)
    THEN LET lines == Split(content)
             newLines == InsertRepoFix(lines, FALSE)
             fixed == \E i \in 1..Len(lines) : LineHasAptUpdate(lines[i])
         IN [content |-> ReplaceAptUpdate(Join(newLines), 1),
             fixes |-> IF fixed
                       THEN Append(fixes, [type |-> "buster", file |-> relativePath,
                                           detail |-> <<"archive.debian.org">>])
                       ELSE fixes]
    ELSE [content |-> content, fixes |-> fixes]

\* content.replace(/composer:latest/gi, 'composer:2.5')
ReplaceComposer(s) ==
    [i \in 1..Len(s) |-> IF ToLowerCase(s[i]) = "composer:latest" THEN "composer:2.5" ELSE s[i]]

\* Fix composer:latest
FixComposer(content, fixes, relativePath) ==
    IF Includes(content, <<"composer:latest">>)
    THEN [content |-> ReplaceComposer(content),
          fixes |-> Append(fixes, [type |-> "composer", file |-> relativePath,
                                   detail |-> <<"composer:latest">>])]
    ELSE [content |-> content, fixes |-> fixes]

\* The body of fixBenchmark's loop for one Dockerfile: the patched content and
\* the fixes list after it
FixDockerfile(content, fixes, relativePath) ==
    LET a == FixMysql(content, fixes, 1, relativePath)
        b == FixBuster(a.content, a.fixes, relativePath)
    IN FixComposer(b.content, b.fixes, relativePath)

\* for (const [oldImage, newImage] of Object.entries(BROKEN_MYSQL_IMAGES)) of analyzeBenchmark
RECURSIVE AnalyzeMysql(_, _, _, _)
AnalyzeMysql(content, fixes, k, relativePath) ==
    IF k > Len(BROKEN_MYSQL_IMAGES) THEN fixes
    ELSE AnalyzeMysql(content,
            IF Includes(content, <<"FROM", " ">> \o BROKEN_MYSQL_IMAGES[k].old)
            THEN Append(fixes, [type |-> "mysql", file |-> relativePath,
                                detail |-> BROKEN_MYSQL_IMAGES[k].old])
            ELSE fixes,
            k + 1, relativePath)

\* The body of analyzeBenchmark's loop for one Dockerfile: the fixes list after it
AnalyzeDockerfile(content, fixes, relativePath) ==
    LET a == AnalyzeMysql(content, fixes, 1, relativePath)
        b == IF /\ UsesBuster(content) /\ ~Includes(content, <<"archive.debian.org">>)
                /\ Includes(content, <<"apt-get update">>)
             THEN Append(a, [type |-> "buster", file |-> relativePath,
                             detail |-> <<"archive.debian.org">>])
             ELSE a
    IN IF Includes(content, <<"composer:latest">>)
       THEN Append(b, [type |-> "composer", file |-> relativePath,
                       detail |-> <<"composer:latest">>])
       ELSE b

\* \d+ and ["']
IsDigits(t) == t \in {"80", "8080"}
IsQuote(t) == t \in {"\"", "'"}

\* The match of /(expose:\s*\n\s*-\s*)["']?(\d+):(\d+)["']?/ at position i:
\* [len, keep] with keep the length of $1$2's source, or len = 0
ExposeMatch(s, i) ==
    IF i <= Len(s) /\ s[i] = "expose:"
    THEN LET w1 == SpaceRun(s, i + 1)
             dash == i + 1 + w1
         IN IF /\ \E j \in (i + 1)..(i + w1) : s[j] = "\n"
               /\ dash <= Len(s) /\ s[dash] = "-"
            THEN LET w2 == SpaceRun(s, dash + 1)
                     q == dash + 1 + w2
                     d == IF q <= Len(s) /\ IsQuote(s[q]) THEN q + 1 ELSE q
                 IN IF /\ d + 2 <= Len(s)
                       /\ IsDigits(s[d]) /\ s[d + 1] = ":" /\ IsDigits(s[d + 2])
                    THEN [len |-> (IF d + 3 <= Len(s) /\ IsQuote(s[d + 3])
                                   THEN d + 3 ELSE d + 2) - i + 1,
                          group1 |-> SubSeq(s, i, q - 1),
                          group2 |-> s[d]]
                    ELSE [len |-> 0, group1 |-> <<>>, group2 |-> ""]
            ELSE [len |-> 0, group1 |-> <<>>, group2 |-> ""]
    ELSE [len |-> 0, group1 |-> <<>>, group2 |-> ""]

\* content.replace(/(expose:\s*\n\s*-\s*)["']?(\d+):(\d+)["']?/g, '$1$2')
RECURSIVE ReplaceExpose(_, _)
ReplaceExpose(s, i) ==
    IF i > Len(s) THEN <<>>
    ELSE LET m == ExposeMatch(s, i)
         IN IF m.len > 0
            THEN m.group1 \o <<m.group2>> \o ReplaceExpose(s, i + m.len)
            ELSE <<s[i]>> \o ReplaceExpose(s, i + 1)

\* content.match(/expose:\s*\n\s*-\s*["']?(\d+):(\d+)["']?/)
ExposeMatches(content) == \E i \in 1..Len(content) : ExposeMatch(content, i).len > 0

ComposeItem == [type |-> "compose", file |-> "docker-compose.yml", detail |-> <<"expose">>]

\* findFiles(benchmarkPath, 'Dockerfile'), in walk order
DockerfilePaths == <<"Dockerfile", "db/Dockerfile">>
ComposePath == "docker-compose.yml"
Paths == {"Dockerfile", "db/Dockerfile", "docker-compose.yml"}

RECURSIVE FindFiles(_, _)
FindFiles(fs, paths) ==
    IF paths = <<>> THEN <<>>
    ELSE IF fs[Head(paths)].exists THEN <<Head(paths)>> \o FindFiles(fs, Tail(paths))
         ELSE FindFiles(fs, Tail(paths))

\* analyzeBenchmark(benchmarkPath): the fixes it returns
RECURSIVE AnalyzeDockerfiles(_, _, _)
AnalyzeDockerfiles(fs, dockerfiles, fixes) ==
    IF dockerfiles = <<>> THEN fixes
    ELSE AnalyzeDockerfiles(fs, Tail(dockerfiles),
            AnalyzeDockerfile(fs[Head(dockerfiles)].content, fixes, Head(dockerfiles)))

analyzeBenchmark(fs) ==
    LET fixes == AnalyzeDockerfiles(fs, FindFiles(fs, DockerfilePaths), <<>>)
    IN IF fs[ComposePath].exists /\ ExposeMatches(fs[ComposePath].content)
       THEN Append(fixes, ComposeItem)
       ELSE fixes

\* A loop that writes every Dockerfile back, changed or not
RECURSIVE FixDockerfilesAlwaysWrite(_, _, _, _)
FixDockerfilesAlwaysWrite(fs, dockerfiles, fixes, written) ==
    IF dockerfiles = <<>> THEN [fs |-> fs, fixes |-> fixes, written |-> written]
    ELSE LET dockerfile == Head(dockerfiles)
             r == FixDockerfile(fs[dockerfile].content, fixes, dockerfile)
         IN FixDockerfilesAlwaysWrite([fs EXCEPT ![dockerfile].content = r.content],
                                      Tail(dockerfiles), r.fixes, Append(written, dockerfile))

\* fixBenchmark(benchmarkPath): the directory it leaves, the fixes it returns and
\* the files it wrote
RECURSIVE FixDockerfiles(_, _, _, _)
FixDockerfiles(fs, dockerfiles, fixes, written) ==
    IF dockerfiles = <<>> THEN [fs |-> fs, fixes |-> fixes, written |-> written]
    ELSE LET dockerfile == Head(dockerfiles)
             originalContent == fs[dockerfile].content
             r == FixDockerfile(originalContent, fixes, dockerfile)
         IN IF r.content # originalContent
            THEN FixDockerfiles([fs EXCEPT ![dockerfile].content = r.content],
                                Tail(dockerfiles), r.fixes, Append(written, dockerfile))
            ELSE FixDockerfiles(fs, Tail(dockerfiles), r.fixes, written)

fixBenchmark(fs) ==
    LET d == FixDockerfiles(fs, FindFiles(fs, DockerfilePaths), <<>>, <<>>)
    IN IF d.fs[ComposePath].exists
       THEN LET content == d.fs[ComposePath].content
                newContent == ReplaceExpose(content, 1)
            IN IF newContent # content
               THEN [fs |-> [d.fs EXCEPT ![ComposePath].content = newContent],
                     fixes |-> Append(d.fixes, ComposeItem),
                     written |-> Append(d.written, ComposePath)]
               ELSE d
       ELSE d

\* Dockerfile lines of the model
DockerfileLines ==
    { <<"FROM", " ", "mysql:5.7", ".15">>,
      <<"FROM", " ", "mysql:5.6">>,
      <<"FROM", " ", "mysql:5.6", ".15">>,
      <<"from", " ", "mysql:5.7", ".15">>,
      <<"FROM", " ", "python:2.7", "-slim">>,
      <<"RUN", " ", "apt-get update">>,
      <<"# ", "Apt-get update", " refreshes the package index">>,
      <<"# mirror: ", "archive.debian.org">>,
      <<"COPY", " ", "--from=", "composer:latest", " ", "/usr/bin/composer">> }

RECURSIVE Dockerfiles(_)
Dockerfiles(n) ==
    IF n = 0 THEN {}
    ELSE IF n = 1 THEN DockerfileLines
    ELSE Dockerfiles(n - 1) \cup
         {d \o <<"\n">> \o l : d \in Dockerfiles(n - 1), l \in DockerfileLines}

NoFile == [exists |-> FALSE, content |-> <<>>]
File(content) == [exists |-> TRUE, content |-> content]

ComposeFiles ==
    { NoFile,
      File(<<"ports:", "\n", " ", "-", " ", "8080", ":", "80">>),
      File(<<"expose:", "\n", " ", "-", " ", "8080", ":", "80">>),
      File(<<"expose:", "\n", " ", "-", " ", "\"", "8080", ":", "80", "\"", "\n",
             "expose:", "\n", " ", "-", " ", "80", ":", "80">>) }

SecondDockerfiles ==
    { NoFile, File(<<"FROM", " ", "mysql:5.6">>), File(<<"FROM", " ", "php:7.4-apache">>) }

NoCall == [ran |-> FALSE, before |-> [p \in Paths |-> NoFile],
           after |-> [p \in Paths |-> NoFile], items |-> <<>>, written |-> <<>>]

\* An analyze that patches what it finds
AnalyzeAndPatch ==
    /\ files' = fixBenchmark(files).fs
    /\ analysis' = [ran |-> TRUE, before |-> files, after |-> files',
                    items |-> analyzeBenchmark(files), written |-> <<>>]
    /\ UNCHANGED <<fixRuns, catVars, lifeVars, gwVars, apiVars>>

\* GET /api/fix?id=...: analyzeBenchmark(benchmarkPath)
Analyze ==
    /\ files' = files
    /\ analysis' = [ran |-> TRUE, before |-> files, after |-> files',
                    items |-> analyzeBenchmark(files), written |-> <<>>]
    /\ UNCHANGED <<fixRuns, catVars, lifeVars, gwVars, apiVars>>

\* POST /api/fix {id}: fixBenchmark(benchmarkPath)
Fix ==
    /\ Len(fixRuns) < MaxFixRuns
    /\ LET r == fixBenchmark(files)
       IN /\ files' = r.fs
          /\ fixRuns' = Append(fixRuns, [ran |-> TRUE, before |-> files, after |-> r.fs,
                                         items |-> r.fixes, written |-> r.written])
    /\ UNCHANGED <<analysis, catVars, lifeVars, gwVars, apiVars>>

FixQuiet ==
    /\ files = [p \in Paths |-> NoFile]
    /\ analysis = NoCall
    /\ fixRuns = <<>>

FixInit ==
    /\ files \in {[p \in Paths |->
                     CASE p = "Dockerfile" -> File(d)
                       [] p = "db/Dockerfile" -> e
                       [] OTHER -> c] :
                  d \in Dockerfiles(MaxLines), e \in SecondDockerfiles, c \in ComposeFiles}
    /\ analysis = NoCall
    /\ fixRuns = <<>>

FixNext == Analyze \/ Fix

-----------------------------------------------------------------------------
\* Daemon gateway: deleteBenchmarkImages(benchmarkId)

ImageIds == {DockerImages[i].Id : i \in 1..Len(DockerImages)}

\* docker.listImages() on a daemon that holds the images of store
ListImages(store) ==
    LET Held(image) == image.Id \in store
    IN SelectSeq(DockerImages, Held)

NoTag == <<>>

\* image.RepoTags?.find(tag => tag.toLowerCase().includes(benchmarkId.toLowerCase()))
RECURSIVE FindMatchingTag(_, _)
FindMatchingTag(tags, benchmarkId) ==
    IF tags = <<>> THEN NoTag
    ELSE IF Includes([i \in 1..Len(Head(tags)) |-> ToLowerCase(Head(tags)[i])],
                     <<ToLowerCase(benchmarkId)>>)
         THEN Head(tags)
         ELSE FindMatchingTag(Tail(tags), benchmarkId)

NoDelResult == [success |-> FALSE, deleted |-> <<>>, hasError |-> FALSE]

\* deleteBenchmarkImages(benchmarkId): const deleted = []; docker.listImages() is issued
DeleteImagesCall(u) ==
    /\ delPc = "idle"
    /\ delUnit' = u
    /\ deleted' = <<>>
    /\ delPc' = "listing"
    /\ UNCHANGED <<imgStore, delImages, delIdx, delAttempts, delResult,
                   gwCall, catVars, lifeVars, fixVars, apiVars>>

\* await docker.listImages(): answered, or rejected into the outer catch
DeleteImagesListed(ok) ==
    /\ delPc = "listing"
    /\ IF ok
       THEN /\ delImages' = ListImages(imgStore)
            /\ delIdx' = 1
            /\ delPc' = "removing"
            /\ UNCHANGED delResult
       ELSE /\ delResult' = [success |-> FALSE, deleted |-> deleted, hasError |-> TRUE]
            /\ delPc' = "done"
            /\ UNCHANGED <<delImages, delIdx>>
    /\ UNCHANGED <<imgStore, delUnit, deleted, delAttempts, gwCall, catVars, lifeVars, fixVars, apiVars>>

\* A loop in which a failed remove ends the call
DeleteImageStepFatal(ok) ==
    /\ delPc = "removing"
    /\ delIdx <= Len(delImages)
    /\ LET image == delImages[delIdx]
           matchingTag == FindMatchingTag(image.RepoTags, delUnit)
       IN IF matchingTag # NoTag
          THEN /\ delAttempts' = Append(delAttempts, [id |-> image.Id, ok |-> ok])
               /\ IF ok
                  THEN /\ imgStore' = imgStore \ {image.Id}
                       /\ deleted' = Append(deleted, matchingTag)
                       /\ delIdx' = delIdx + 1
                  ELSE /\ delIdx' = Len(delImages) + 1
                       /\ UNCHANGED <<imgStore, deleted>>
          ELSE /\ ok
               /\ delIdx' = delIdx + 1
               /\ UNCHANGED <<imgStore, deleted, delAttempts>>
    /\ UNCHANGED <<delPc, delUnit, delImages, delResult, gwCall, catVars, lifeVars, fixVars, apiVars>>

\* One turn of for (const image of images): find the tag, remove the image by id
\* with force and push the tag, or log the failure and go on
DeleteImageStep(ok) ==
    /\ delPc = "removing"
    /\ delIdx <= Len(delImages)
    /\ LET image == delImages[delIdx]
           matchingTag == FindMatchingTag(image.RepoTags, delUnit)
       IN IF matchingTag # NoTag
          THEN /\ delAttempts' = Append(delAttempts, [id |-> image.Id, ok |-> ok])
               /\ IF ok
                  THEN /\ imgStore' = imgStore \ {image.Id}
                       /\ deleted' = Append(deleted, matchingTag)
                  ELSE UNCHANGED <<imgStore, deleted>>
          ELSE /\ ok                   \* nothing is removed: one way to take the turn
               /\ UNCHANGED <<imgStore, deleted, delAttempts>>
    /\ delIdx' = delIdx + 1
    /\ UNCHANGED <<delPc, delUnit, delImages, delResult, gwCall, catVars, lifeVars, fixVars, apiVars>>

\* return { success: true, deleted }
DeleteImagesReturn ==
    /\ delPc = "removing"
    /\ delIdx > Len(delImages)
    /\ delResult' = [success |-> TRUE, deleted |-> deleted, hasError |-> FALSE]
    /\ delPc' = "done"
    /\ UNCHANGED <<imgStore, delUnit, delImages, delIdx, deleted, delAttempts,
                   gwCall, catVars, lifeVars, fixVars, apiVars>>

\* No getContainerLogs, execInContainer or getDockerInfo call was made yet.
\* outcome: "none" | "returned" (the promise fulfilled) | "rejected"
NoGatewayCall == [op |-> "none", container |-> "", pc |-> "idle", output |-> <<>>,
                  outcome |-> "none", failed |-> FALSE, exitCode |-> 0]

GwQuiet ==
    /\ imgStore = ImageIds
    /\ delPc = "idle"
    /\ delUnit = "XBEN-001-24"
    /\ delImages = <<>>
    /\ delIdx = 1
    /\ deleted = <<>>
    /\ delAttempts = <<>>
    /\ delResult = NoDelResult
    /\ gwCall = NoGatewayCall

ImagesInit ==
    /\ imgStore \in SUBSET ImageIds
    /\ delPc = "idle"
    /\ delUnit = "XBEN-001-24"
    /\ delImages = <<>>
    /\ delIdx = 1
    /\ deleted = <<>>
    /\ delAttempts = <<>>
    /\ delResult = NoDelResult
    /\ gwCall = NoGatewayCall

ImagesNext ==
    \/ \E u \in UnitNames : DeleteImagesCall(u)
    \/ \E ok \in BOOLEAN : DeleteImagesListed(ok)
    \/ \E ok \in BOOLEAN : DeleteImageStep(ok)
    \/ DeleteImagesReturn

-----------------------------------------------------------------------------
\* Daemon gateway: getContainerLogs, execInContainer, getDockerInfo

GatewayOps == {"logs", "exec", "info"}

\* Chunks of the multiplexed stream of an exec: 8 header bytes, then the data
StreamChunks == { [header |-> "stdout:4", data |-> "root"],
                  [header |-> "stderr:4", data |-> "oops"] }

DelQuiet ==
    UNCHANGED <<imgStore, delPc, delUnit, delImages, delIdx, deleted, delAttempts,
                delResult, catVars, lifeVars, fixVars, apiVars>>

\* The route calls getContainerLogs(id, tail), execInContainer(id, command) or
\* getDockerInfo() and awaits it
GatewayCall(op, c) ==
    /\ gwCall.pc = "idle"
    /\ gwCall' = [NoGatewayCall EXCEPT !.op = op,
                                !.container = IF op = "info" THEN "" ELSE c,
                                !.pc = IF op = "exec" THEN "creating" ELSE "asking"]
    /\ DelQuiet

\* try { logs = await container.logs(...); return logs.toString() }
\* catch (error) { return `Error fetching container logs: ${error}` }
LogsAnswered(ok) ==
    /\ gwCall.op = "logs" /\ gwCall.pc = "asking"
    /\ ok => containerState[gwCall.container] # "absent"      \* else 404
    /\ gwCall' = [gwCall EXCEPT !.pc = "done", !.outcome = "returned", !.failed = ~ok]
    /\ DelQuiet

\* try { info = await docker.info(); version = await docker.version();
\* return { connected: true, ... } } catch { return { connected: false, ... } }
InfoAnswered(infoOk, versionOk) ==
    /\ gwCall.op = "info" /\ gwCall.pc = "asking"
    /\ gwCall' = [gwCall EXCEPT !.pc = "done", !.outcome = "returned",
                                !.failed = ~(infoOk /\ versionOk)]
    /\ DelQuiet

\* exec = await container.exec(...), inside the try
ExecCreated(ok) ==
    /\ gwCall.op = "exec" /\ gwCall.pc = "creating"
    /\ ok => containerState[gwCall.container] = "running"     \* else 404 or 409
    /\ gwCall' = IF ok THEN [gwCall EXCEPT !.pc = "starting"]
                 ELSE [gwCall EXCEPT !.pc = "done", !.outcome = "returned",
                                     !.failed = TRUE, !.exitCode = 1]
    /\ DelQuiet

\* stream = await exec.start(...), inside the try; then `return new Promise(...)`
\* leaves the try with the handlers attached and the promise pending
ExecStarted(ok) ==
    /\ gwCall.op = "exec" /\ gwCall.pc = "starting"
    /\ gwCall' = IF ok THEN [gwCall EXCEPT !.pc = "streaming"]
                 ELSE [gwCall EXCEPT !.pc = "done", !.outcome = "returned",
                                     !.failed = TRUE, !.exitCode = 1]
    /\ DelQuiet

\* stream.on('data'): output += chunk.slice(8).toString()
StreamData(chunk) ==
    /\ gwCall.op = "exec" /\ gwCall.pc = "streaming"
    /\ Len(gwCall.output) < MaxChunks
    /\ gwCall' = [gwCall EXCEPT !.output = Append(@, chunk.data)]
    /\ DelQuiet

\* stream.on('error', reject): the promise the caller awaits rejects; the catch
\* of execInContainer was left when the promise was returned
StreamError ==
    /\ gwCall.op = "exec" /\ gwCall.pc = "streaming"
    /\ gwCall' = [gwCall EXCEPT !.pc = "done", !.outcome = "rejected", !.failed = TRUE]
    /\ DelQuiet

\* stream.on('end', async () => { inspect = await exec.inspect(); ...
StreamEnd ==
    /\ gwCall.op = "exec" /\ gwCall.pc = "streaming"
    /\ gwCall' = [gwCall EXCEPT !.pc = "inspecting"]
    /\ DelQuiet

\* ... resolve({ output, exitCode: inspect.ExitCode || 0 }) }). When inspect()
\* rejects, the async handler rejects unobserved and nothing settles the promise.
InspectAnswered(ok, code) ==
    /\ gwCall.op = "exec" /\ gwCall.pc = "inspecting"
    /\ gwCall' = IF ok
                 THEN [gwCall EXCEPT !.pc = "done", !.outcome = "returned",
                                     !.exitCode = code]
                 ELSE [gwCall EXCEPT !.pc = "abandoned", !.failed = TRUE]
    /\ DelQuiet

GatewayNext ==
    \/ \E op \in GatewayOps, c \in {"c1", "c2", "c3"} : GatewayCall(op, c)
    \/ \E ok \in BOOLEAN : LogsAnswered(ok)
    \/ \E infoOk \in BOOLEAN, versionOk \in BOOLEAN : InfoAnswered(infoOk, versionOk)
    \/ \E ok \in BOOLEAN : ExecCreated(ok)
    \/ \E ok \in BOOLEAN : ExecStarted(ok)
    \/ \E chunk \in StreamChunks : StreamData(chunk)
    \/ StreamError
    \/ StreamEnd
    \/ \E ok \in BOOLEAN, code \in {0, 1, 137} : InspectAnswered(ok, code)

-----------------------------------------------------------------------------
\* HTTP layer: middleware.ts, lib/auth.ts and the API route handlers

\* request.nextUrl.pathname, as tokens; '.' is a token of its own
HttpPaths ==
    { <<"/login">>, <<"/login", "-help">>, <<"/dashboard">>,
      <<"/api/", "auth/login">>, <<"/api/", "auth/login", "s">>,
      <<"/api/", "benchmarks">>,
      <<"/api/", "benchmarks", "/", "XBEN-001-24">>,
      <<"/api/", "benchmarks", "/", "XBEN-001-24", ".", "bak">>,
      <<"/api/", "benchmarks", "/", "XBEN-001-24", "/logs">>,
      <<"/api/", "containers", "/", "c1", "/logs">>,
      <<"/api/", "containers", "/", "c1", "/exec">>,
      <<"/api/", "containers", "/", "c1", ".", "x", "/exec">>,
      <<"/api/", "docker">>, <<"/api/", "fix">>,
      <<"/_next", "/static/", "app", ".", "js">>, <<"/logo", ".", "png">> }

\* The auth-token cookie: absent, a token createToken signed that has not
\* expired, one signed with another key, one that has expired
AuthTokens == {"none", "valid", "forged", "expired"}

HttpMethods == {"GET", "POST"}

\* The `action` of a POST body (also the one field the fix and exec bodies need)
BodyActions == {"start", "deleteImage", "pull", "bogus"}

\* String.prototype.startsWith on token sequences
StartsWith(s, prefix) ==
    /\ Len(s) >= Len(prefix)
    /\ \A k \in 1..Len(prefix) : s[k] = prefix[k]

\* config.matcher: '/((?!_next/static|_next/image|favicon.ico).*)'
MatcherRuns(pathname) ==
    /\ ~StartsWith(pathname, <<"/_next", "/static/">>)
    /\ ~StartsWith(pathname, <<"/_next", "/image/">>)
    /\ ~StartsWith(pathname, <<"/favicon", ".", "ico">>)

\* verifyToken(token): jwtVerify checks signature and expiry; null when it throws
verifyToken(token) == token = "valid"

\* getSession(): if (!token) return null; return verifyToken(token)
getSession(token) == IF token = "none" THEN FALSE ELSE verifyToken(token)

\* middleware(request): what it returns for a path and an auth-token cookie
middleware(pathname, token) ==
    LET isPublicRoute == \/ StartsWith(pathname, <<"/login">>)
                         \/ StartsWith(pathname, <<"/api/", "auth/login">>)
        isApi == StartsWith(pathname, <<"/api/">>)
    IN IF isPublicRoute \/ StartsWith(pathname, <<"/_next">>) \/ Includes(pathname, <<".">>)
       THEN [kind |-> "next", status |-> 200, location |-> <<>>]
       ELSE IF token = "none" \/ ~verifyToken(token)
       THEN IF isApi THEN [kind |-> "json", status |-> 401, location |-> <<>>]
            ELSE [kind |-> "redirect", status |-> 307, location |-> <<"/login">>]
       ELSE IF pathname = <<"/login">>
       THEN [kind |-> "redirect", status |-> 307, location |-> <<"/dashboard">>]
       ELSE [kind |-> "next", status |-> 200, location |-> <<>>]

\* The route file the app router picks for a path: a dynamic [id] segment takes
\* any text without '/', "page" stands for whatever is not under /api/
Route(pathname) ==
    LET n == Len(pathname)
        Under(dir) == n >= 4 /\ StartsWith(pathname, <<"/api/", dir, "/">>)
        IdOnly == \A k \in 4..n : pathname[k] \notin {"/logs", "/exec"}
        IdThen(tail) == n >= 5 /\ pathname[n] = tail
                        /\ \A k \in 4..(n - 1) : pathname[k] \notin {"/logs", "/exec"}
    IN CASE pathname = <<"/api/", "auth/login">> -> "login"
         [] pathname = <<"/api/", "benchmarks">> -> "benchmarks"
         [] pathname = <<"/api/", "docker">> -> "docker"
         [] pathname = <<"/api/", "fix">> -> "fix"
         [] Under("benchmarks") /\ IdOnly -> "benchmark"
         [] Under("benchmarks") /\ IdThen("/logs") -> "benchmarkLogs"
         [] Under("containers") /\ IdThen("/logs") -> "containerLogs"
         [] Under("containers") /\ IdThen("/exec") -> "exec"
         [] StartsWith(pathname, <<"/api/">>) -> "notFound"
         [] OTHER -> "page"

\* The core operation a handler invokes once it has a session, by route, method
\* and body; "none" where it answers 400 or 405 without one
CoreOperation(route, method, action) ==
    CASE route = "benchmarks" /\ method = "GET" -> "listBenchmarks"
      [] route = "benchmarks" /\ method = "POST" /\ action = "pull" -> "pullBenchmarks"
      [] route = "benchmark" /\ method = "GET" -> "getBenchmarkInfo"
      [] route = "benchmark" /\ method = "POST" /\ action = "start" -> "startBenchmark"
      [] route = "benchmark" /\ method = "POST" /\ action = "deleteImage" ->
            "deleteBenchmarkImages"
      [] route = "benchmarkLogs" /\ method = "GET" -> "getBenchmarkLogs"
      [] route = "containerLogs" /\ method = "GET" -> "getContainerLogs"
      [] route = "exec" /\ method = "POST" /\ action # "bogus" -> "execInContainer"
      [] route = "docker" /\ method = "GET" -> "getDockerInfo"
      [] route = "fix" /\ method = "GET" -> "analyzeBenchmark"
      [] route = "fix" /\ method = "POST" /\ action # "bogus" -> "fixBenchmark"
      [] OTHER -> "none"

NoRequest == [path |-> <<>>, method |-> "GET", token |-> "none", action |-> "bogus"]
NoResponse == [status |-> 0, by |-> "none", location |-> <<>>]

\* A request arrives; the matcher decides whether the middleware sees it
HttpArrive(pathname, method, token, action) ==
    /\ httpPc = "idle"
    /\ httpReq' = [path |-> pathname, method |-> method, token |-> token,
                   action |-> IF method = "POST" THEN action ELSE "bogus"]
    /\ httpPc' = IF MatcherRuns(pathname) THEN "middleware" ELSE "handler"
    /\ UNCHANGED <<httpResp, opRun, catVars, lifeVars, fixVars, gwVars, syncVars>>

\* The middleware answers the request or lets it proceed to its route
HttpMiddleware ==
    /\ httpPc = "middleware"
    /\ LET r == middleware(httpReq.path, httpReq.token)
       IN IF r.kind = "next"
          THEN httpPc' = "handler" /\ UNCHANGED httpResp
          ELSE /\ httpPc' = "done"
               /\ httpResp' = [status |-> r.status, by |-> "middleware",
                               location |-> r.location]
    /\ UNCHANGED <<httpReq, opRun, catVars, lifeVars, fixVars, gwVars, syncVars>>

\* A handler that trusts the middleware and reads no session
HttpHandlerNoSession(ok) ==
    /\ httpPc = "handler"
    /\ LET route == Route(httpReq.path)
           op == CoreOperation(route, httpReq.method, httpReq.action)
       IN /\ opRun' = op
          /\ httpResp' = [status |-> IF op = "none" THEN 400
                                      ELSE IF ok THEN 200 ELSE 500,
                          by |-> route, location |-> <<>>]
    /\ httpPc' = "done"
    /\ UNCHANGED <<httpReq, catVars, lifeVars, fixVars, gwVars, syncVars>>

\* The route handler: session = await getSession(); if (!session) return 401;
\* then the core operation of the route, or 400 for a body it does not accept.
\* The login route and the pages read no session and invoke no core operation.
\* ok: whether the core operation succeeds (200) or fails or throws (500).
HttpHandler(ok) ==
    /\ httpPc = "handler"
    /\ LET route == Route(httpReq.path)
           op == CoreOperation(route, httpReq.method, httpReq.action)
       IN IF route \in {"page", "notFound", "login"}
          THEN /\ opRun' = "none"
               /\ httpResp' = [status |-> IF route = "notFound" THEN 404 ELSE 200,
                               by |-> route, location |-> <<>>]
          ELSE IF ~getSession(httpReq.token)
          THEN /\ opRun' = "none"
               /\ httpResp' = [status |-> 401, by |-> route, location |-> <<>>]
          ELSE /\ opRun' = op
               /\ httpResp' = [status |-> IF op = "none" THEN 400
                                      ELSE IF ok THEN 200 ELSE 500,
                               by |-> route, location |-> <<>>]
    /\ httpPc' = "done"
    /\ UNCHANGED <<httpReq, catVars, lifeVars, fixVars, gwVars, syncVars>>

\* The response is sent; the server takes the next request
HttpRespond ==
    /\ httpPc = "done"
    /\ httpPc' = "idle"
    /\ httpReq' = NoRequest
    /\ httpResp' = NoResponse
    /\ opRun' = "none"
    /\ UNCHANGED <<catVars, lifeVars, fixVars, gwVars, syncVars>>

HttpQuiet ==
    /\ httpPc = "idle"
    /\ httpReq = NoRequest
    /\ httpResp = NoResponse
    /\ opRun = "none"

ApiNext ==
    \/ \E pathname \in HttpPaths, method \in HttpMethods, token \in AuthTokens,
          action \in BodyActions : HttpArrive(pathname, method, token, action)
    \/ HttpMiddleware
    \/ \E ok \in BOOLEAN : HttpHandler(ok)
    \/ HttpRespond

-----------------------------------------------------------------------------
\* Catalog sync: pullBenchmarks of lib/docker.ts

MaxSyncCalls == 3

\* The directory at GIT_REPO_PATH: missing, present without a .git entry,
\* or a repository
RepoStates == {"absent", "files", "git"}

NoSync == [hadGit |-> FALSE, log |-> <<>>, pullFailed |-> FALSE,
           success |-> FALSE, output |-> "none"]

HttpUnchanged == UNCHANGED <<httpPc, httpReq, httpResp, opRun, catVars, lifeVars, fixVars, gwVars>>

\* pullBenchmarks() is called
SyncCall ==
    /\ syncPc = "idle"
    /\ Len(syncRuns) < MaxSyncCalls
    /\ syncPc' = "access"
    /\ syncRun' = NoSync
    /\ UNCHANGED <<syncRepo, syncRuns>>
    /\ HttpUnchanged

\* await fs.access(path.join(gitRepoPath, '.git')): throws into the inner catch
\* when there is no .git entry
SyncAccess ==
    /\ syncPc = "access"
    /\ syncRun' = [syncRun EXCEPT !.hadGit = (syncRepo = "git")]
    /\ syncPc' = IF syncRepo = "git" THEN "pull" ELSE "mkdir"
    /\ UNCHANGED <<syncRepo, syncRuns>>
    /\ HttpUnchanged

\* await execAsync('git pull --progress'): returns {success: true} when git
\* exits 0; a rejection is caught by the inner catch, which goes on to clone
SyncPull(ok) ==
    /\ syncPc = "pull"
    /\ syncPc' = IF ok THEN "done" ELSE "mkdir"
    /\ syncRun' = [syncRun EXCEPT !.log = Append(@, "git pull"),
                                  !.pullFailed = ~ok,
                                  !.success = ok,
                                  !.output = IF ok THEN "pull" ELSE @]
    /\ UNCHANGED <<syncRepo, syncRuns>>
    /\ HttpUnchanged

\* await fs.mkdir(gitRepoPath, {recursive: true}): succeeds on a directory that
\* exists; creating it can fail, which the outer catch reports
SyncMkdir(ok) ==
    /\ syncPc = "mkdir"
    /\ syncRepo # "absent" => ok
    /\ syncPc' = IF ok THEN "clone" ELSE "done"
    /\ syncRepo' = IF ok /\ syncRepo = "absent" THEN "files" ELSE syncRepo
    /\ syncRun' = [syncRun EXCEPT !.log = Append(@, "mkdir"),
                                  !.output = IF ok THEN @ ELSE "Error: mkdir"]
    /\ UNCHANGED syncRuns
    /\ HttpUnchanged

\* await execAsync(`git clone --progress ${gitRepoUrl} "${gitRepoPath}"`): git
\* refuses a destination that is a repository already; a rejection is reported
\* by the outer catch
SyncClone(ok) ==
    /\ syncPc = "clone"
    /\ syncRepo = "git" => ~ok
    /\ syncPc' = "done"
    /\ syncRepo' = IF ok THEN "git" ELSE syncRepo
    /\ syncRun' = [syncRun EXCEPT !.log = Append(@, "git clone"),
                                  !.success = ok,
                                  !.output = IF ok THEN "Cloned repository successfully!"
                                             ELSE "Error: git clone"]
    /\ UNCHANGED syncRuns
    /\ HttpUnchanged

\* The result reaches the caller
SyncReturn ==
    /\ syncPc = "done"
    /\ syncPc' = "idle"
    /\ syncRuns' = Append(syncRuns, syncRun)
    /\ UNCHANGED <<syncRepo, syncRun>>
    /\ HttpUnchanged

SyncQuiet ==
    /\ syncPc = "idle"
    /\ syncRepo = "git"
    /\ syncRun = NoSync
    /\ syncRuns = <<>>

ApiQuiet == HttpQuiet /\ SyncQuiet

SyncInit ==
    /\ syncPc = "idle"
    /\ syncRepo \in RepoStates
    /\ syncRun = NoSync
    /\ syncRuns = <<>>
    /\ HttpQuiet /\ LifeQuiet /\ CatQuiet /\ FixQuiet /\ GwQuiet

SyncNext ==
    \/ SyncCall
    \/ SyncAccess
    \/ \E ok \in BOOLEAN : SyncPull(ok)
    \/ \E ok \in BOOLEAN : SyncMkdir(ok)
    \/ \E ok \in BOOLEAN : SyncClone(ok)
    \/ SyncReturn

-----------------------------------------------------------------------------
\* Specifications

LifeInit == LifeQuiet /\ CatQuiet /\ FixQuiet /\ GwQuiet /\ ApiQuiet

CatalogInit == CatInit /\ LifeQuiet /\ FixQuiet /\ GwQuiet /\ ApiQuiet

PatcherInit == FixInit /\ LifeQuiet /\ CatQuiet /\ GwQuiet /\ ApiQuiet

LifeNext ==
    \/ \E r \in Requests, o \in Actions, u \in UnitNames : Call(r, o, u, 0)
    \/ \E r \in Requests : OnStdout(r, PlainLine)
    \/ \E r \in Requests, line \in Lines : OnStderr(r, line)
    \/ \E r \in Requests, code \in ExitCodes : OnClose(r, code)
    \/ \E r \in Requests : RequeryDone(r)
    \/ \E r \in Requests : OnError(r)

\* Starts and stops with or without a port in the request body, and what their
\* subprocesses do to the daemon
StartNext ==
    \/ \E r \in Requests, o \in {"start", "stop"}, u \in UnitNames :
          \E port \in (IF o = "start" THEN PortOverrides ELSE {0}) : Call(r, o, u, port)
    \/ \E r \in Requests : ComposeEffect(r)
    \/ \E r \in Requests, code \in ExitCodes : OnClose(r, code)
    \/ \E r \in Requests : RequeryDone(r)
    \/ \E r \in Requests : OnError(r)

SpecStart == LifeInit /\ [][StartNext]_vars

\* Lifecycle calls, the events of their subprocesses and the answers of the
\* daemon to the re-query of a start
ReturnNext ==
    \/ \E r \in Requests, o \in Actions, u \in UnitNames : Call(r, o, u, 0)
    \/ \E r \in Requests, line \in {UpperLine} : OnStderr(r, line)
    \/ \E r \in Requests, code \in ExitCodes : OnClose(r, code)
    \/ \E r \in Requests : RequeryOutage(r)
    \/ \E r \in Requests : RequeryDone(r)
    \/ \E r \in Requests : OnError(r)

\* The await of getBenchmarkInfo in the close handler of a start completes:
\* its daemon calls and file reads each settle, by answer or by failure
ReturnFairness == \A r \in Requests : WF_vars(RequeryDone(r))

SpecReturn == LifeInit /\ [][ReturnNext]_vars /\ ReturnFairness

SpecGateway == LifeInit /\ [][GatewayNext]_vars

SpecApi == LifeInit /\ [][ApiNext]_vars

SpecSync == SyncInit /\ [][SyncNext]_vars

SpecLifecycle == LifeInit /\ [][LifeNext]_vars

SpecCatalog == CatalogInit /\ [][CatNext]_vars

SpecPatcher == PatcherInit /\ [][FixNext]_vars

DirectoryInit == CatInit /\ LifeQuiet /\ FixQuiet /\ GwQuiet /\ ApiQuiet

GatewayInit == ImagesInit /\ CatQuiet /\ LifeQuiet /\ FixQuiet /\ ApiQuiet

\* Refreshes of a directory whose two units hold any of the benchmark.yaml files
ManifestInit ==
    /\ dockerUp = TRUE
    /\ containerState \in InitialFleets
    /\ daemonEvents = 0
    /\ fsReadable = TRUE
    /\ \E k1 \in ManifestKinds, k2 \in ManifestKinds :
          manifest = [n \in DirectoryNames |->
                         CASE n = "XBEN-001-24" -> ManifestFile(k1)
                           [] n = "XBEN-002-24" -> ManifestFile(k2)
                           [] OTHER -> ManifestFile("good")]
    /\ dirNames = {"XBEN-002-24", "notes", "XBEN-001-24"}
    /\ dirEvents = 0
    /\ dirAtCall = [l \in Callers |-> {}]
    /\ listPc = [l \in Callers |-> "idle"]
    /\ listDirs = [l \in Callers |-> <<>>]
    /\ containers = [l \in Callers |-> <<>>]
    /\ images = [l \in Callers |-> <<>>]
    /\ listPollOk = [l \in Callers |-> FALSE]
    /\ listInfos = [l \in Callers |-> <<>>]
    /\ listResult = [l \in Callers |-> <<>>]
    /\ ctrCalls = [l \in Callers |-> 0]
    /\ imgCalls = [l \in Callers |-> 0]
    /\ LifeQuiet /\ FixQuiet /\ GwQuiet /\ ApiQuiet

ManifestNext ==
    \/ \E l \in ListCallers : ListStart(l)
    \/ \E l \in ListCallers : PollDone(l)
    \/ \E l \in ListCallers, i \in 1..Len(DirEntries) : Assemble(l, i)
    \/ \E l \in ListCallers : ListReturn(l)

SpecManifest == ManifestInit /\ [][ManifestNext]_vars

SpecImages == GatewayInit /\ [][ImagesNext]_vars

SpecDirectory == DirectoryInit /\ [][DirNext]_vars

-----------------------------------------------------------------------------
\* Properties of the fleet catalog

\* Every BenchmarkInfo a caller holds: assembled or returned
InfosOf(l) ==
    {listInfos[l][i] : i \in 1..Len(listInfos[l])} \cup
    {listResult[l][i] : i \in 1..Len(listResult[l])}
AllInfos == UNION {InfosOf(l) \ {NoInfo} : l \in Callers}

Running(info) == {i \in 1..Len(info.containers) : info.containers[i].state = "running"}
StatesOf(info) == [i \in 1..Len(info.containers) |-> info.containers[i].state]

\* C2 as stated: every listBenchmarks call that returned issued exactly one
\* listContainers and exactly one listImages call, and every unit it returned was
\* matched against the one container list of the call.
C2_ExactlyOnePollPerCall ==
    \A l \in ListCallers :
        listPc[l] = "done" =>
            /\ ctrCalls[l] = 1
            /\ imgCalls[l] = 1
            /\ \A i \in 1..Len(listResult[l]) : listResult[l][i].from = containers[l]

\* C2 amended: a listBenchmarks call never issues more than one listContainers and
\* one listImages call, whatever the number of units and of concurrent refreshes;
\* it has issued exactly one of each once its directory scan succeeded, and none
\* when mkdir/readdir failed (the call then returns the empty list); every unit
\* it assembles or returns was matched against the one container list of the call.
C2_OnePollPerRefresh ==
    \A l \in ListCallers :
        /\ ctrCalls[l] <= 1 /\ imgCalls[l] <= 1
        /\ (listPc[l] # "idle" /\ fsReadable) => (ctrCalls[l] = 1 /\ imgCalls[l] = 1)
        /\ (listPc[l] # "idle" /\ ~fsReadable) =>
              (ctrCalls[l] = 0 /\ imgCalls[l] = 0 /\ listPc[l] = "done" /\ listResult[l] = <<>>)
        /\ \A info \in InfosOf(l) \ {NoInfo} : info.from = containers[l]
        /\ (listPc[l] = "done" /\ fsReadable) => Len(listResult[l]) = Len(listDirs[l])

\* Two concurrent refreshes over two units have returned, each from its own poll
C2_Witness ==
    /\ listPc["l1"] = "done" /\ listPc["l2"] = "done"
    /\ Len(listResult["l1"]) = 2 /\ Len(listResult["l2"]) = 2
    /\ containers["l1"] # containers["l2"]
    /\ ctrCalls["l1"] = 1 /\ ctrCalls["l2"] = 1

\* C9: a unit's status is determined by the states of its containers alone: no
\* container or none running gives 'stopped', at least one and all running gives
\* 'running', some but not all running gives 'partial'; equal states, equal status.
C9_StatusIsFunctionOfStates ==
    /\ \A info \in AllInfos :
          LET n == Len(info.containers)
              r == Cardinality(Running(info))
          IN /\ (n = 0 \/ r = 0) => info.status = "stopped"
             /\ (n >= 1 /\ r = n) => info.status = "running"
             /\ (r >= 1 /\ r < n) => info.status = "partial"
    /\ \A a, b \in AllInfos : StatesOf(a) = StatesOf(b) => a.status = b.status

\* One returned fleet holds a partial unit (running + exited) and a running unit
C9_Witness ==
    \E l \in ListCallers :
        /\ listPc[l] = "done"
        /\ \E i, j \in 1..Len(listResult[l]) :
              /\ listResult[l][i].status = "partial"
              /\ Len(listResult[l][i].containers) = 2
              /\ listResult[l][j].status = "running"

\* C10 as stated: when the listContainers call fails the call still returns and
\* its units carry status 'unknown', and 'unknown' is reported in no other case.
C10_UnknownIffUnreachable ==
    \A l \in Callers :
        (listPc[l] = "done" /\ ctrCalls[l] = 1) =>
            \A i \in 1..Len(listResult[l]) :
                (listResult[l][i].status = "unknown") <=> ~listPollOk[l]

-----------------------------------------------------------------------------
\* Properties of the lifecycle controller

\* Subprocesses in flight for unit u
AliveOn(u) ==
    LET Mine == {r \in Requests : reqPc[r] = "spawned" /\ reqUnit[r] = u}
    IN IF Mine = {} THEN 0
       ELSE IF Mine = Requests THEN procAlive["r1"] + procAlive["r2"]
       ELSE procAlive[CHOOSE r \in Mine : TRUE]

\* C1 as stated: at any time at most one lifecycle subprocess is in flight for a unit.
C1_OneSubprocessPerUnit == \A u \in UnitNames : AliveOn(u) <= 1

\* C1 amended: the controller does not serialize per unit. Every lifecycle request
\* spawns one subprocess of its own, also when an operation on the same unit is
\* still running, so the subprocesses in flight for a unit never exceed the
\* lifecycle requests issued for that unit, and may exceed one.
C1_OneSubprocessPerRequestOfUnit ==
    \A u \in UnitNames :
        AliveOn(u) <= Cardinality({r \in Requests : reqPc[r] = "spawned" /\ reqUnit[r] = u})

\* Two requests for the same unit each have a subprocess in flight
C1_Witness ==
    /\ reqUnit["r1"] = reqUnit["r2"]
    /\ procAlive["r1"] = 1 /\ procAlive["r2"] = 1
    /\ reqOp["r1"] = "start" /\ reqOp["r2"] = "stop"

\* C3: a lifecycle call spawns exactly one subprocess, never a second one after a
\* failure, and its caller receives at most one result, exactly one once the
\* subprocess closed (and start's re-query returned) or an 'error' event was
\* handled, whatever 'close' and 'error' events arrive and in whatever order.
C3_OneSpawnOneResult ==
    \A r \in Requests :
        /\ spawned[r] <= 1
        /\ reqPc[r] = "spawned" => spawned[r] = 1
        /\ delivered[r] <= 1
        /\ delivered[r] = 1 <=> settled[r]
        /\ settled[r] => (result[r] # NoResult /\ resolvedBy[r].via # "none")
        /\ (reqPc[r] = "spawned" /\ procAlive[r] = 0 /\ ~requery[r]) => delivered[r] = 1

\* One call saw two 'error' events and a failing 'close', and delivered one result
C3_Witness ==
    /\ reqPc["r2"] = "idle"
    /\ errorEvents = 2
    /\ reqPc["r1"] = "spawned" /\ procAlive["r1"] = 0
    /\ delivered["r1"] = 1 /\ spawned["r1"] = 1

RECURSIVE StderrLines(_)
StderrLines(chunks) ==
    IF chunks = <<>> THEN <<>>
    ELSE IF Head(chunks).stream = "stderr"
         THEN <<Head(chunks).line>> \o StderrLines(Tail(chunks))
         ELSE StderrLines(Tail(chunks))

RECURSIVE AllLines(_)
AllLines(chunks) ==
    IF chunks = <<>> THEN <<>> ELSE <<Head(chunks).line>> \o AllLines(Tail(chunks))

\* The lines an operation treats as diagnostics
IsDiagnostic(o, line) ==
    CASE o = "build" -> TRUE
      [] o \in {"start", "stop"} -> line \in {UpperLine, LowerLine}
      [] OTHER -> line = UpperLine

DiagnosticLines(r) ==
    LET Keep(line) == IsDiagnostic(reqOp[r], line)
    IN SelectSeq(StderrLines(arrived[r]), Keep)

ClosedNonzero(r) == resolvedBy[r].via = "close" /\ resolvedBy[r].code # 0

\* C4 as stated: a call completed by a nonzero exit returns {success:false} with
\* the text the subprocess wrote to stderr, and the generic '<operation> failed
\* with code N' only when nothing was written to stderr.
C4_ErrorIsStderrText ==
    \A r \in Requests :
        ClosedNonzero(r) =>
            result[r] = [success |-> FALSE, hasError |-> TRUE,
                         error |-> IF StderrLines(arrived[r]) # <<>>
                                   THEN StderrLines(arrived[r])
                                   ELSE FailedWithCode(reqOp[r], resolvedBy[r].code),
                         hasPorts |-> FALSE, ports |-> NoPortMap]

\* C4 amended: a call completed by a nonzero exit returns {success:false} whose
\* error is the stderr text the operation captured: for build every stderr chunk,
\* for start and stop only the chunks containing 'Error' or 'error', for restart
\* only the chunks containing 'Error'. The generic '<operation> failed with code
\* N' is returned when no chunk was captured, also when stderr held other text.
C4_ErrorIsCapturedStderr ==
    \A r \in Requests :
        ClosedNonzero(r) =>
            result[r] = [success |-> FALSE, hasError |-> TRUE,
                         error |-> IF DiagnosticLines(r) # <<>>
                                   THEN DiagnosticLines(r)
                                   ELSE FailedWithCode(reqOp[r], resolvedBy[r].code),
                         hasPorts |-> FALSE, ports |-> NoPortMap]

\* A restart wrote 'error' progress text and an 'Error' line to stderr and exited 1
C4_Witness ==
    \E r \in Requests :
        /\ ClosedNonzero(r)
        /\ reqOp[r] = "restart"
        /\ StderrLines(arrived[r]) = <<LowerLine, UpperLine>>
        /\ result[r].error = <<UpperLine>>

\* C5 as stated: every stdout and stderr chunk of a lifecycle subprocess reaches
\* the log sink, in arrival order, as it arrives; a stderr chunk with an error
\* marker is appended to the error text and still delivered to the sink.
C5_EveryChunkReachesSink ==
    \A r \in Requests : sink[r] = AllLines(arrived[r])

-----------------------------------------------------------------------------
\* Properties of the compatibility patcher

\* The (kind, file) pairs of a list of FixItems
KindsAndFiles(items) == {<<items[i].type, items[i].file>> : i \in 1..Len(items)}

\* C6 as stated: fix is idempotent. Of two fix calls in succession the second
\* returns no FixItem and leaves every Dockerfile and the compose file as the
\* first call left them.
C6_FixIsIdempotent ==
    Len(fixRuns) >= 2 =>
        /\ fixRuns[2].before = fixRuns[1].after
        /\ fixRuns[2].items = <<>>
        /\ fixRuns[2].after = fixRuns[1].after

\* C7 as stated: analyze and fix detect the same: on the same unmodified directory
\* content analyze reports a finding of kind K for file F exactly when fix returns
\* a FixItem of kind K for file F.
C7_AnalyzeDetectsWhatFixDoes ==
    (analysis.ran /\ Len(fixRuns) >= 1 /\ analysis.before = fixRuns[1].before) =>
        KindsAndFiles(analysis.items) = KindsAndFiles(fixRuns[1].items)

\* C8: analyze is read-only. After analyzeBenchmark every file of the unit
\* directory exists exactly when it did before and holds the content it held
\* before the call, whichever rules matched.
C8_AnalyzeIsReadOnly ==
    analysis.ran => (analysis.after = analysis.before /\ analysis.written = <<>>)

\* An analyze call found a mysql, a buster, a composer or compose finding in a
\* directory a fix call would rewrite
C8_Witness ==
    /\ analysis.ran
    /\ \E i, j \in 1..Len(analysis.items) :
          /\ analysis.items[i].type = "mysql"
          /\ analysis.items[j].type \in {"buster", "compose"}
    /\ fixBenchmark(analysis.before).fs # analysis.before
    /\ files = analysis.before

\* The fix calls made so far
FixCalls == {fixRuns[k] : k \in 1..Len(fixRuns)}

\* A FixItem of the given kind naming file p is among those the call returned
HasItem(run, type, p) ==
    \E i \in 1..Len(run.items) : run.items[i].type = type /\ run.items[i].file = p

\* Some FixItem the call returned names file p
Reported(run, p) == \E i \in 1..Len(run.items) : run.items[i].file = p

\* The file the call found at p holds the text pat
Held(run, p, pat) == run.before[p].exists /\ Includes(run.before[p].content, pat)

\* A rule of the given kind applies to the file the call found at p, read off
\* the file's text
RuleApplies(run, type, p) ==
    /\ run.before[p].exists
    /\ LET text == run.before[p].content
       IN CASE type = "mysql" ->
                 p # ComposePath /\ \E k \in 1..Len(BROKEN_MYSQL_IMAGES) :
                     Includes(text, <<"FROM", " ">> \o BROKEN_MYSQL_IMAGES[k].old)
            [] type = "buster" ->
                 /\ p # ComposePath
                 /\ \E i \in 1..Len(text) : ToLowerCase(text[i]) \in BUSTER_BASED_IMAGES
                 /\ \E i \in 1..Len(text) : ToLowerCase(text[i]) = "apt-get update"
                 /\ ~Includes(text, <<"archive.debian.org">>)
            [] type = "composer" -> p # ComposePath /\ Includes(text, <<"composer:latest">>)
            [] type = "compose" ->
                 p = ComposePath /\ ExposeMatches(text)
            [] OTHER -> FALSE

\* C22 as stated: a Dockerfile that contains 'FROM mysql:5.7.15' contains
\* 'FROM mysql:5.7' and no longer 'FROM mysql:5.7.15' after fix, and every
\* FixItem the call returns names a file in which the rule of its kind matched.
C22_Mysql5715IsRewritten ==
    \A run \in FixCalls :
        /\ \A p \in Paths \ {ComposePath} :
              Held(run, p, <<"FROM", " ", "mysql:5.7", ".15">>) =>
                  /\ Includes(run.after[p].content, <<"FROM", " ", "mysql:5.7">>)
                  /\ ~Includes(run.after[p].content, <<"FROM", " ", "mysql:5.7", ".15">>)
        /\ \A i \in 1..Len(run.items) :
              RuleApplies(run, run.items[i].type, run.items[i].file)

\* The part of C22 that does not meet the rule for mysql:5.6: every FixItem
\* names a file in which the rule of its kind matched, and a Dockerfile with
\* 'FROM mysql:5.7.15' and no 'FROM mysql:5.6' is left without 'FROM mysql:5.7.15'.
C22_ItemsNameMatchingFiles ==
    \A run \in FixCalls :
        /\ \A p \in Paths \ {ComposePath} :
              (/\ Held(run, p, <<"FROM", " ", "mysql:5.7", ".15">>)
               /\ ~Held(run, p, <<"FROM", " ", "mysql:5.6">>)) =>
                  /\ Includes(run.after[p].content, <<"FROM", " ", "mysql:5.7">>)
                  /\ ~Includes(run.after[p].content, <<"FROM", " ", "mysql:5.7", ".15">>)
        /\ \A i \in 1..Len(run.items) :
              RuleApplies(run, run.items[i].type, run.items[i].file)

FixKinds == {"mysql", "buster", "composer", "compose"}

\* How often the call wrote file p
Writes(run, p) == Cardinality({i \in 1..Len(run.written) : run.written[i] = p})

\* C24: fix writes a Dockerfile or the compose file only when the patched
\* content differs from the content it read, writes each file at most once per
\* call with all matching rules applied together, and leaves every file that
\* matches no rule untouched.
C24_WritesOnlyChangedFilesOnce ==
    \A run \in FixCalls : \A p \in Paths :
        /\ Writes(run, p) <= 1
        /\ Writes(run, p) = 1 => (run.before[p].exists /\ run.after[p] # run.before[p])
        /\ Writes(run, p) = 0 => run.after[p] = run.before[p]
        /\ (\A type \in FixKinds : ~RuleApplies(run, type, p)) =>
              (Writes(run, p) = 0 /\ run.after[p] = run.before[p])
        /\ RuleApplies(run, "composer", p) =>
              ~Includes(run.after[p].content, <<"composer:latest">>)
        /\ RuleApplies(run, "buster", p) =>
              Includes(run.after[p].content, <<"archive.debian.org">>)
        /\ RuleApplies(run, "mysql", p) =>
              ~Includes(run.after[p].content, <<"FROM", " ", "mysql:5.6">>)
        /\ RuleApplies(run, "compose", p) => ~ExposeMatches(run.after[p].content)

\* A fix call wrote the Dockerfile once with the mysql and the composer rule
\* both applied, and left alone a second Dockerfile and a compose file that
\* match no rule
C24_Witness ==
    \E run \in FixCalls :
        /\ run.written = <<"Dockerfile">>
        /\ RuleApplies(run, "mysql", "Dockerfile")
        /\ RuleApplies(run, "composer", "Dockerfile")
        /\ Includes(run.after["Dockerfile"].content, <<"composer:2.5">>)
        /\ run.before["db/Dockerfile"].exists
        /\ run.before[ComposePath].exists
        /\ run.after["db/Dockerfile"] = run.before["db/Dockerfile"]
        /\ run.after[ComposePath] = run.before[ComposePath]

-----------------------------------------------------------------------------
\* Properties of the benchmarks directory scan

\* The unit directories present when caller l scanned the benchmarks path
UnitDirsAtCall(l) ==
    dirAtCall[l] \cap {"XBEN-001-24", "XBEN-002-24", "XBEN-001-25", "XBEN-draft"}

IdsOf(l) == {listResult[l][i].id : i \in 1..Len(listResult[l])}

\* C11 as stated: a listBenchmarks call returns exactly one unit per sub-directory
\* present at call time whose name starts with 'XBEN-': none missing, none
\* duplicated, none for a plain file or a differently named directory.
C11_OneUnitPerDirectory ==
    \A l \in ListCallers :
        listPc[l] = "done" =>
            /\ IdsOf(l) = UnitDirsAtCall(l)
            /\ Len(listResult[l]) = Cardinality(UnitDirsAtCall(l))

\* C11 amended: a listBenchmarks call whose mkdir/readdir succeeded returns exactly
\* one unit per sub-directory present at the scan whose name starts with 'XBEN-';
\* a call whose mkdir/readdir failed returns the empty list.
C11_OneUnitPerScannedDirectory ==
    \A l \in ListCallers :
        listPc[l] = "done" =>
            IF fsReadable
            THEN /\ IdsOf(l) = UnitDirsAtCall(l)
                 /\ Len(listResult[l]) = Cardinality(UnitDirsAtCall(l))
            ELSE listResult[l] = <<>>

\* Two refreshes with a directory created between their scans: the first returned
\* two units, the second three, with the plain file XBEN-README and the directory
\* notes present at both scans
C11_Witness ==
    /\ listPc["l1"] = "done" /\ listPc["l2"] = "done"
    /\ "notes" \in dirAtCall["l1"] /\ "notes" \in dirAtCall["l2"]
    /\ Len(listResult["l1"]) = 2 /\ Len(listResult["l2"]) = 3
    /\ dirEvents = 1

-----------------------------------------------------------------------------
\* Properties of container matching

\* The container ids of a BenchmarkInfo
IdsIn(info) == {info.containers[i].id : i \in 1..Len(info.containers)}

\* The units of the fleet whose lower-cased name is the compose-project label of c
LabelUnits(c, fleet) == {u \in fleet : c.Label = ToLowerCase(u.id)}

\* C12 as stated: in the fleet a refresh returns, a container whose compose-project
\* label equals a unit's lower-cased name is in the containers of that unit only,
\* a container without such a label is in the containers of the units whose name
\* its name contains, no container is in the containers of two units, and a
\* container matching no unit is in none.
C12_LabelTakesPrecedence ==
    \A l \in ListCallers :
        listPc[l] = "done" =>
            LET fleet == InfosOf(l) \ {NoInfo}
            IN /\ \A i \in 1..Len(containers[l]) :
                     LET c == containers[l][i]
                     IN \A u \in fleet :
                           c.Id \in IdsIn(u) <=>
                              IF LabelUnits(c, fleet) # {}
                              THEN u \in LabelUnits(c, fleet)
                              ELSE \E n \in 1..Len(c.Names) :
                                      Includes(c.Names[n], <<ToLowerCase(u.id)>>)
               /\ \A a, b \in fleet : a.id # b.id => IdsIn(a) \cap IdsIn(b) = {}

-----------------------------------------------------------------------------
\* Properties of port aggregation

\* The host ports the bindings publish for container port key k, in binding order,
\* counted from the last binding
RECURSIVE HostPortsOf(_, _)
HostPortsOf(bindings, k) ==
    IF bindings = <<>> THEN <<>>
    ELSE LET last == bindings[Len(bindings)]
             before == HostPortsOf(SubSeq(bindings, 1, Len(bindings) - 1), k)
         IN IF PortString(last.PrivatePort) = k /\ last.PublicPort # 0
            THEN Append(before, PortString(last.PublicPort))
            ELSE before

\* The host ports the containers with an id in ids publish for k, in the order of
\* the daemon's container list, counted from the last container
RECURSIVE PublishedFor(_, _, _)
PublishedFor(daemonList, ids, k) ==
    IF daemonList = <<>> THEN <<>>
    ELSE LET last == daemonList[Len(daemonList)]
             before == PublishedFor(SubSeq(daemonList, 1, Len(daemonList) - 1), ids, k)
         IN IF last.Id \in ids THEN before \o HostPortsOf(last.Ports, k) ELSE before

\* C13: for every unit, ports[p] lists the published host ports its containers
\* bind to container port p, in the order of the shared daemon container list
\* and, within a container, in binding order; unpublished bindings add nothing.
C13_PortsInContainerOrder ==
    \A info \in AllInfos :
        \A k \in PortKeys :
            info.ports[k] = PublishedFor(info.from, IdsIn(info), k)

\* A unit whose two containers publish port 80 on 8080 and 8081, one of them with
\* an unpublished binding of port 3306
C13_Witness ==
    \E info \in AllInfos :
        /\ info.id = "XBEN-001-24"
        /\ IdsIn(info) = {"c1", "c2"}
        /\ info.ports["80"] = <<"8080", "8081">>
        /\ info.ports["3306"] = <<>>

-----------------------------------------------------------------------------
\* Properties of image removal

\* The image has a tag that contains the unit name, compared without case
HasTagOf(image, u) ==
    \E t \in 1..Len(image.RepoTags) :
        \E i \in 1..Len(image.RepoTags[t]) :
            ToLowerCase(image.RepoTags[t][i]) = ToLowerCase(u)

\* The first tag of the image with that id that contains the unit name
TagReported(id, u) ==
    LET image == CHOOSE im \in {DockerImages[i] : i \in 1..Len(DockerImages)} : im.Id = id
        first == CHOOSE t \in 1..Len(image.RepoTags) :
                    /\ \E i \in 1..Len(image.RepoTags[t]) :
                          ToLowerCase(image.RepoTags[t][i]) = ToLowerCase(u)
                    /\ \A t2 \in 1..(t - 1) :
                          \A i \in 1..Len(image.RepoTags[t2]) :
                             ToLowerCase(image.RepoTags[t2][i]) # ToLowerCase(u)
    IN image.RepoTags[first]

\* C14: a deleteBenchmarkImages call that listed the images calls remove, once and
\* in list order, for exactly the images with a tag containing the unit name; a
\* failed remove is skipped and the later matching images are still attempted;
\* 'deleted' holds, for each image removed and in that order, its tag containing
\* the unit name (the first one when it has several); the daemon has lost the
\* removed images and no other.
C14_RemovesMatchingImages ==
    (delPc = "done" /\ delResult.success) =>
        LET Matching(image) == HasTagOf(image, delUnit)
            Removed(a) == a.ok
            matching == SelectSeq(delImages, Matching)
            removed == SelectSeq(delAttempts, Removed)
        IN /\ Len(delAttempts) = Len(matching)
           /\ \A k \in 1..Len(matching) : delAttempts[k].id = matching[k].Id
           /\ delResult.deleted =
                 [k \in 1..Len(removed) |-> TagReported(removed[k].id, delUnit)]
           /\ imgStore = {delImages[i].Id : i \in 1..Len(delImages)}
                            \ {removed[k].id : k \in 1..Len(removed)}

\* The first matching image could not be removed, the second, which has two
\* tags with the unit name, was; an untagged and a foreign image were listed
C14_Witness ==
    /\ delPc = "done" /\ delResult.success
    /\ Len(delImages) = 4
    /\ delAttempts = << [id |-> "sha256:a1", ok |-> FALSE], [id |-> "sha256:c3", ok |-> TRUE] >>
    /\ delResult.deleted = << <<"mirror/", "xben-001-24", "-db:latest">> >>

-----------------------------------------------------------------------------
\* Properties of the output order

\* Position of the unit named id in the scan of caller l
ScanIndex(l, id) == CHOOSE k \in 1..Len(listDirs[l]) : listDirs[l][k] = id

\* The number embedded in a unit name, 0 when it has none
UnitNumber(id) ==
    CASE id \in {"XBEN-001-24", "XBEN-001-25"} -> 1
      [] id = "XBEN-002-24" -> 2
      [] OTHER -> 0

\* C15: the returned units are in ascending order of the number in their name, a
\* name without a number counting as 0, and units of equal number keep the order
\* of the directory scan, whatever order the per-unit assemblies completed in.
C15_SortedStable ==
    \A l \in ListCallers :
        listPc[l] = "done" =>
            \A i, j \in 1..Len(listResult[l]) :
                i < j =>
                    LET a == listResult[l][i].id
                        b == listResult[l][j].id
                    IN /\ UnitNumber(a) <= UnitNumber(b)
                       /\ UnitNumber(a) = UnitNumber(b) => ScanIndex(l, a) < ScanIndex(l, b)

\* A refresh returned two units of number 1 in scan order, before the unit of
\* number 2 that the scan met first
C15_Witness ==
    \E l \in ListCallers :
        /\ listPc[l] = "done"
        /\ listDirs[l] = <<"XBEN-002-24", "XBEN-001-24", "XBEN-001-25">>
        /\ [i \in 1..Len(listResult[l]) |-> listResult[l][i].id]
              = <<"XBEN-001-24", "XBEN-001-25", "XBEN-002-24">>

\* A refresh returned the unit without a number first although the scan met it last
C15_WitnessNoNumber ==
    \E l \in ListCallers :
        /\ listPc[l] = "done"
        /\ Len(listResult[l]) = 3
        /\ listResult[l][1].id = "XBEN-draft"
        /\ listDirs[l][3] = "XBEN-draft"

-----------------------------------------------------------------------------
\* Properties of start's port map

\* C16: start returns a port map only on success, and the map is derived from the
\* unit snapshot the daemon gave to the re-query made after the start subprocess
\* closed with code 0, never from state read before or during the run; a failed
\* start returns no port map and issues no re-query.
C16_PortMapFromRequeryAfterClose ==
    [][\A r \in Requests :
         \* a port map is returned by start only, with success, by the re-query
         /\ result'[r].hasPorts =>
                /\ result'[r].success /\ reqOp'[r] = "start"
                /\ resolvedBy'[r].via = "requery"
         \* the re-query starts when the subprocess closes, never before
         /\ (requery'[r] /\ ~requery[r]) =>
                /\ procAlive'[r] = 0 /\ procAlive[r] = 1
                /\ reqOp[r] = "start" /\ ~settled[r]
         \* its answer is the daemon's snapshot at the answer, after the close
         /\ (result'[r].hasPorts /\ ~result[r].hasPorts) =>
                /\ requery[r] /\ procAlive[r] = 0
                /\ result'[r].ports =
                      StartPorts(getBenchmarkInfo(reqUnit[r]).ports)
         \* a failed call has no port map and no re-query, pending or answered
         /\ (settled'[r] /\ ~result'[r].success) =>
                /\ ~result'[r].hasPorts /\ result'[r].ports = NoPortMap
                /\ ~requery'[r] /\ resolvedBy'[r].via # "requery"
      ]_vars

\* A start brought a container up during its run and then returned its port
C16_Witness ==
    /\ reqOp["r1"] = "start" /\ reqUnit["r1"] = "XBEN-002-24"
    /\ containerState["c4"] = "running"
    /\ result["r1"].success /\ result["r1"].hasPorts
    /\ result["r1"].ports["80"] = 8082

\* C17: a host-port override passed to start is visible only in the environment
\* of that invocation's subprocess: process.env is the same after any sequence of
\* calls, and a concurrent or later call without an override, for any unit, has
\* the ambient PORT and HOST_PORT, not those of another invocation.
C17_OverrideStaysInItsInvocation ==
    /\ processEnv = AmbientEnv
    /\ \A r \in Requests :
          reqPc[r] = "spawned" =>
             IF reqOp[r] = "start" /\ reqPort[r] # 0
             THEN /\ childEnv[r].PORT = PortString(reqPort[r])
                  /\ childEnv[r].HOST_PORT = PortString(reqPort[r])
             ELSE /\ childEnv[r].PORT = AmbientEnv.PORT
                  /\ childEnv[r].HOST_PORT = AmbientEnv.HOST_PORT

\* A start with an override is running while a start of the other unit, without
\* one, is spawned
C17_Witness ==
    /\ reqPc["r1"] = "spawned" /\ reqOp["r1"] = "start" /\ reqPort["r1"] = 8082
    /\ procAlive["r1"] = 1 /\ childEnv["r1"].PORT = "8082"
    /\ reqPc["r2"] = "spawned" /\ reqOp["r2"] = "start" /\ reqPort["r2"] = 0
    /\ reqUnit["r1"] # reqUnit["r2"]
    /\ childEnv["r2"].HOST_PORT = "unset"

-----------------------------------------------------------------------------
\* Properties of the manifest metadata

\* The entry of unit id in the list a refresh returned, NoInfo when it has none
EntryOf(l, id) ==
    IF \E i \in 1..Len(listResult[l]) : listResult[l][i].id = id
    THEN listResult[l][CHOOSE i \in 1..Len(listResult[l]) : listResult[l][i].id = id]
    ELSE NoInfo

BadManifests == {ManifestFile(k) : k \in ManifestKinds \ {"good"}}

\* C19 as stated: a unit whose benchmark.yaml is missing, unreadable or malformed
\* is still returned by the refresh, with default metadata (its directory name as
\* name, no level); every other unit of the call is returned unaffected; the call
\* is never an error or an empty fleet because of it.
C19_BadManifestGivesDefaults ==
    \A l \in ListCallers :
        listPc[l] = "done" =>
            /\ IdsOf(l) = UnitDirsAtCall(l)
            /\ \A id \in UnitDirsAtCall(l) :
                  /\ manifest[id] \in BadManifests =>
                        /\ EntryOf(l, id).name = <<id>>
                        /\ EntryOf(l, id).level = NoLevel
                  /\ manifest[id] = ManifestFile("good") =>
                        /\ EntryOf(l, id).name = <<"Login Bypass">>
                        /\ EntryOf(l, id).level = 2

\* The part of C19 that holds: whatever the benchmark.yaml files are, the call
\* returns every unit, each with metadata that depends on its own file alone. A
\* missing or unreadable file, or one without a line the patterns match, gives
\* the defaults; a file cut off after its name gives that name and no level; a
\* 'name:' without value gives the text of the next line as the name.
C19_BadManifestNeverFailsTheCall ==
    \A l \in ListCallers :
        listPc[l] = "done" =>
            /\ IdsOf(l) = UnitDirsAtCall(l)
            /\ Len(listResult[l]) = Cardinality(UnitDirsAtCall(l))
            /\ \A id \in UnitDirsAtCall(l) :
                  LET info == EntryOf(l, id)
                      Is(kind) == manifest[id] = ManifestFile(kind)
                  IN /\ (Is("missing") \/ Is("unreadable") \/ Is("garbage")) =>
                           (info.name = <<id>> /\ info.level = NoLevel)
                     /\ Is("truncated") =>
                           (info.name = <<"Login Bypass">> /\ info.level = NoLevel)
                     /\ Is("noname") =>
                           (info.name = <<"level", ":", "2">> /\ info.level = 2)
                     /\ Is("good") =>
                           (info.name = <<"Login Bypass">> /\ info.level = 2)

\* A refresh returned a unit without benchmark.yaml next to a unit with a good one
C19_Witness ==
    /\ listPc["l1"] = "done" /\ Len(listResult["l1"]) = 2
    /\ manifest["XBEN-001-24"] = ManifestFile("missing")
    /\ manifest["XBEN-002-24"] = ManifestFile("good")
    /\ EntryOf("l1", "XBEN-001-24").name = <<"XBEN-001-24">>
    /\ EntryOf("l1", "XBEN-002-24").level = 2

-----------------------------------------------------------------------------
\* Properties of the gateway calls

\* C20: no gateway operation throws or rejects to its caller when the daemon is
\* unreachable or a daemon call or stream fails at any point; each returns a
\* value that reports the failure.
C20_GatewayNeverRejects ==
    /\ gwCall.outcome # "rejected"
    /\ gwCall.pc # "abandoned"
    /\ (gwCall.pc = "done" /\ gwCall.failed) => gwCall.outcome = "returned"

-----------------------------------------------------------------------------
\* Properties of the lifecycle results

\* C30: the success flag of start, stop and restart is determined by the
\* subprocess exit code alone. A call answered after 'close' succeeds exactly
\* when the code is 0; with code 0 the result carries no error field whatever
\* stderr chunks were captured into the error text, and each captured chunk
\* reached neither the result nor the log sink: the sink holds the chunks that
\* were not captured and no others.
C30_SuccessByExitCodeAlone ==
    \A r \in Requests :
        (/\ settled[r]
         /\ reqOp[r] \in {"start", "stop", "restart"}
         /\ resolvedBy[r].via \in {"close", "requery"}) =>
            /\ result[r].success <=> (resolvedBy[r].code = 0)
            /\ resolvedBy[r].code = 0 =>
                  /\ ~result[r].hasError
                  /\ result[r].error = <<>>
                  /\ Len(sink[r]) + Len(error[r]) = Len(arrived[r])
                  /\ \A i \in 1..Len(error[r]) :
                        \A j \in 1..Len(sink[r]) : sink[r][j] # error[r][i]
                           \/ \E k \in 1..Len(arrived[r]) :
                                 /\ arrived[r][k].line = sink[r][j]
                                 /\ arrived[r][k].stream = "stdout"

\* A start and a stop or restart that captured an error-marked stderr chunk
\* exited 0 and were answered with success and no error
C30_Witness ==
    \E r, q \in Requests :
        /\ reqOp[r] = "start" /\ resolvedBy[r].via = "requery"
        /\ reqOp[q] \in {"stop", "restart"}
        /\ resolvedBy[q].via = "close" /\ resolvedBy[q].code = 0
        /\ error[r] # <<>> /\ error[q] # <<>>
        /\ result[r].success /\ ~result[r].hasError
        /\ result[q].success /\ ~result[q].hasError

\* The subprocess of request r has emitted 'close' or 'error'
Ended(r) == reqPc[r] = "spawned" /\ (procAlive[r] = 0 \/ ErrorEmitted(r))

\* C26: every lifecycle call eventually returns a result once its subprocess
\* has emitted 'close' or 'error', whatever the subprocess wrote and whatever
\* the daemon answers, a start that exited 0 and whose re-query finds the
\* daemon unreachable included.
C26_EveryCallReturns ==
    \A r \in Requests : Ended(r) ~> (settled[r] /\ delivered[r] = 1)

\* A start exited 0, the daemon went away before its re-query, and the caller
\* has the result: success with an empty port map
C26_Witness ==
    \E r \in Requests :
        /\ reqOp[r] = "start"
        /\ ~dockerUp
        /\ resolvedBy[r].via = "requery"
        /\ settled[r] /\ delivered[r] = 1
        /\ result[r].success /\ result[r].ports = NoPortMap

-----------------------------------------------------------------------------
\* HTTP layer properties

\* The route files that guard a core operation
GuardedRoutes ==
    {"benchmarks", "benchmark", "benchmarkLogs", "containerLogs", "exec",
     "docker", "fix"}

\* C21: no core operation is executed for a request that lacks a valid
\* session: whenever a core operation has been invoked the request carries a
\* valid token, and every guarded API handler that answers a request without
\* one answers 401 and has invoked nothing, also when the middleware let the
\* request through.
C21_NoOperationWithoutSession ==
    /\ (opRun # "none" => httpReq.token = "valid")
    /\ (httpPc = "done" /\ httpResp.by \in GuardedRoutes /\ httpReq.token # "valid")
          => (httpResp.status = 401 /\ opRun = "none")

\* A guarded handler has answered 401 to a request with a forged token that
\* the middleware let through
C21_Witness ==
    /\ httpPc = "done"
    /\ httpResp.by = "benchmark"
    /\ httpReq.token = "forged"
    /\ httpReq.method = "POST" /\ httpReq.action = "start"
    /\ middleware(httpReq.path, httpReq.token).kind = "next"
    /\ httpResp.status = 401
    /\ opRun = "none"

\* C25: a request to /login that carries a valid auth token is redirected to
\* /dashboard by the middleware: once the middleware has dealt with such a
\* request, it has answered it with that redirect.
C25_LoginWithTokenRedirected ==
    (/\ httpReq.path = <<"/login">>
     /\ httpReq.token = "valid"
     /\ httpPc \in {"handler", "done"})
        => /\ httpPc = "done"
           /\ httpResp.by = "middleware"
           /\ httpResp.location = <<"/dashboard">>

\* C27: no request to an /api/ path other than the login API passes the
\* middleware without a valid auth token, whatever its path contains.
C27_NoApiPathPassesUnauthenticated ==
    (/\ httpPc = "handler"
     /\ MatcherRuns(httpReq.path)
     /\ httpReq.token # "valid"
     /\ StartsWith(httpReq.path, <<"/api/">>))
        => httpReq.path = <<"/api/", "auth/login">>

-----------------------------------------------------------------------------
\* Catalog sync properties

\* The sync calls that have their result
SyncCalls == {syncRuns[k] : k \in 1..Len(syncRuns)}

\* How often the call ran the command
Ran(run, cmd) == Cardinality({i \in 1..Len(run.log) : run.log[i] = cmd})

\* C29 as stated: catalog sync clones only when the repository directory has no
\* .git entry: if .git exists, exactly one 'git pull' is run and 'git clone' is
\* never attempted in that call, even when the pull fails, and a failed pull is
\* reported as {success: false}.
C29_ClonesOnlyWithoutGit ==
    \A run \in SyncCalls :
        /\ run.hadGit => (Ran(run, "git pull") = 1 /\ Ran(run, "git clone") = 0)
        /\ run.pullFailed => ~run.success
        /\ ~run.hadGit => Ran(run, "git pull") = 0

\* The part of C29 that holds: with a .git entry exactly one 'git pull' is run,
\* without one none, a failed pull is never reported as a success, and no call
\* runs 'git clone' more than once.
C29_OnePullAndFailureReported ==
    \A run \in SyncCalls :
        /\ run.hadGit => Ran(run, "git pull") = 1
        /\ run.pullFailed => ~run.success
        /\ ~run.hadGit => Ran(run, "git pull") = 0
        /\ Ran(run, "git clone") <= 1

====
